---- MODULE Spec2Model ----
(***************************************************************************)
(* State-machine model of slack-mcp-server: the cache warmer of            *)
(* pkg/provider/api.go driven by the background task of                    *)
(* cmd/slack-mcp-server/main.go, the tool handlers of pkg/handler, the     *)
(* posting policy, the auth gate of pkg/server/auth and the channel        *)
(* pagination of pkg/handler/channels.go.                                  *)
(*                                                                         *)
(* Go strings are TLA+ strings; a character is a string of length one.     *)
(***************************************************************************)
EXTENDS Integers, Sequences, FiniteSets, TLC

(***************************************************************************)
(* strings package (Go standard library), as the handlers use it.          *)
(***************************************************************************)
HasPrefix(s, p) == Len(s) >= Len(p) /\ SubSeq(s, 1, Len(p)) = p

HasSuffix(s, p) == Len(s) >= Len(p) /\ SubSeq(s, Len(s) - Len(p) + 1, Len(s)) = p

TrimPrefix(s, p) == IF HasPrefix(s, p) THEN SubSeq(s, Len(p) + 1, Len(s)) ELSE s

CharAt(s, i) == SubSeq(s, i, i)

IsSpace(c) == c \in {" ", "\t", "\n", "\r"}

RECURSIVE TrimLeft(_)
TrimLeft(s) == IF Len(s) > 0 /\ IsSpace(CharAt(s, 1)) THEN TrimLeft(Tail(s)) ELSE s

RECURSIVE TrimRight(_)
TrimRight(s) ==
  IF Len(s) > 0 /\ IsSpace(CharAt(s, Len(s)))
  THEN TrimRight(SubSeq(s, 1, Len(s) - 1))
  ELSE s

TrimSpace(s) == TrimRight(TrimLeft(s))

\* strings.Contains(s, sub)
Contains(s, sub) ==
  \E i \in 1..(Len(s) - Len(sub) + 1) : SubSeq(s, i, i + Len(sub) - 1) = sub

\* strings.Split(s, sep) for a one-character separator: always at least one item.
RECURSIVE SplitFrom(_, _, _)
SplitFrom(s, sep, cur) ==
  IF Len(s) = 0 THEN <<cur>>
  ELSE IF CharAt(s, 1) = sep THEN <<cur>> \o SplitFrom(Tail(s), sep, "")
  ELSE SplitFrom(Tail(s), sep, cur \o CharAt(s, 1))

Split(s, sep) == SplitFrom(s, sep, "")

\* Go maps: finite functions; m[k] = v inserts or overwrites.
EmptyMap == <<>>

Put(m, k, v) == [x \in (DOMAIN m) \cup {k} |-> IF x = k THEN v ELSE m[x]]

Range(f) == {f[x] : x \in DOMAIN f}

\* All sequences over S without repetition of length at most n.
SeqsNoRep(S, n) ==
  UNION {{q \in [1..k -> S] : \A i, j \in 1..k : i # j => q[i] # q[j]} : k \in 0..n}

(***************************************************************************)
(* Bounds of the model.                                                    *)
(***************************************************************************)
\* Longest user list Slack returns from one users listing.
MaxUsers == 2

\* Most pages Slack serves in one channel listing.
MaxPages == 2

(***************************************************************************)
(* The workspace Slack serves: users (slack.User) and conversations        *)
(* (slack.Channel), reduced to the fields the provider reads.              *)
(***************************************************************************)
u1 == [ID |-> "U1", Name |-> "a", RealName |-> "Al"]
u2 == [ID |-> "U2", Name |-> "b", RealName |-> "Bo"]
\* same handle as u1
u3 == [ID |-> "U3", Name |-> "a", RealName |-> "Cy"]
\* Slack Connect counterparty, absent from the workspace listing
u9 == [ID |-> "U9", Name |-> "x", RealName |-> "Ex"]

\* What users.list serves; u2 is known from an older snapshot only.
WorkspaceUsers == {u1, u3}

SlackUser(id) == CHOOSE u \in {u1, u2, u3, u9} : u.ID = id

rc1 == [ID |-> "C1", Name |-> "g", NameNormalized |-> "g", Topic |-> "t1",
        Purpose |-> "p1", User |-> "", Members |-> <<>>, NumMembers |-> 5,
        IsIM |-> FALSE, IsMpIM |-> FALSE, IsPrivate |-> FALSE]
rc2 == [ID |-> "C2", Name |-> "s", NameNormalized |-> "s", Topic |-> "t2",
        Purpose |-> "p2", User |-> "", Members |-> <<>>, NumMembers |-> 7,
        IsIM |-> FALSE, IsMpIM |-> FALSE, IsPrivate |-> TRUE]
rd1 == [ID |-> "D1", Name |-> "", NameNormalized |-> "", Topic |-> "",
        Purpose |-> "", User |-> "U1", Members |-> <<>>, NumMembers |-> 0,
        IsIM |-> TRUE, IsMpIM |-> FALSE, IsPrivate |-> FALSE]
rg1 == [ID |-> "G1", Name |-> "m", NameNormalized |-> "m", Topic |-> "t3",
        Purpose |-> "p3", User |-> "", Members |-> <<"U1", "U2">>, NumMembers |-> 0,
        IsIM |-> FALSE, IsMpIM |-> TRUE, IsPrivate |-> TRUE]

\* The pages a channel listing can return.
ChannelPages == {<<rc1>>, <<rc2, rd1>>, <<rg1>>, <<>>}

\* IMs of client.userBoot: [User, IsShared, IsExtShared].
BootIMs == {<<>>,
            <<[User |-> "U9", IsShared |-> TRUE, IsExtShared |-> FALSE]>>,
            <<[User |-> "U1", IsShared |-> FALSE, IsExtShared |-> TRUE],
              [User |-> "U2", IsShared |-> FALSE, IsExtShared |-> FALSE]>>}

AllChanTypes == <<"mpim", "im", "public_channel", "private_channel">>
PubChanType == "public_channel"
PrivateChanType == "private_channel"

(***************************************************************************)
(* Snapshot files.  A file is missing, unparsable, or a JSON list; the     *)
(* JSON objects carry the struct tags, not the Go field names.             *)
(***************************************************************************)
Missing == [kind |-> "missing"]
Corrupt == [kind |-> "corrupt"]
Json(list) == [kind |-> "json", list |-> list]

MarshalUsers(list) ==
  Json([i \in DOMAIN list |->
          [id |-> list[i].ID, name |-> list[i].Name, real_name |-> list[i].RealName]])

UnmarshalUsers(file) ==
  [i \in DOMAIN file.list |->
     [ID |-> file.list[i].id, Name |-> file.list[i].name,
      RealName |-> file.list[i].real_name]]

MarshalChannels(list) ==
  Json([i \in DOMAIN list |->
          [id |-> list[i].ID, name |-> list[i].Name, topic |-> list[i].Topic,
           purpose |-> list[i].Purpose, memberCount |-> list[i].MemberCount,
           mpim |-> list[i].IsMpIM, im |-> list[i].IsIM, private |-> list[i].IsPrivate]])

UnmarshalChannels(file) ==
  [i \in DOMAIN file.list |->
     [ID |-> file.list[i].id, Name |-> file.list[i].name, Topic |-> file.list[i].topic,
      Purpose |-> file.list[i].purpose, MemberCount |-> file.list[i].memberCount,
      IsMpIM |-> file.list[i].mpim, IsIM |-> file.list[i].im,
      IsPrivate |-> file.list[i].private]]

(***************************************************************************)
(* mapChannel: the cached Channel built from a slack.Channel and the       *)
(* users map as it is at the time of the call.                             *)
(***************************************************************************)
RECURSIVE Join(_, _)
Join(items, sep) ==
  IF Len(items) = 0 THEN ""
  ELSE IF Len(items) = 1 THEN items[1]
  ELSE items[1] \o sep \o Join(Tail(items), sep)

mapChannel(rc, usersMap) ==
  LET known(uid) == uid \in DOMAIN usersMap
      userNames == [i \in DOMAIN rc.Members |->
                      IF known(rc.Members[i]) THEN usersMap[rc.Members[i]].RealName
                      ELSE rc.Members[i]]
      named == IF rc.IsIM
                 THEN [n |-> "@" \o (IF known(rc.User) THEN usersMap[rc.User].Name ELSE rc.User),
                       p |-> "DM with " \o
                             (IF known(rc.User) THEN usersMap[rc.User].RealName ELSE rc.User),
                       t |-> "", c |-> 2]
               ELSE IF rc.IsMpIM
                 THEN IF Len(rc.Members) > 0
                        THEN [n |-> "@" \o rc.NameNormalized,
                              p |-> "Group DM with " \o Join(userNames, ", "),
                              t |-> "", c |-> Len(rc.Members)]
                        ELSE [n |-> rc.Name, p |-> rc.Purpose, t |-> rc.Topic,
                              c |-> rc.NumMembers]
               ELSE [n |-> "#" \o rc.NameNormalized, p |-> rc.Purpose, t |-> rc.Topic,
                     c |-> rc.NumMembers]
  IN [ID |-> rc.ID, Name |-> named.n, Topic |-> named.t, Purpose |-> named.p,
      MemberCount |-> named.c, IsIM |-> rc.IsIM, IsMpIM |-> rc.IsMpIM,
      IsPrivate |-> rc.IsPrivate]

(***************************************************************************)
(* State.                                                                  *)
(***************************************************************************)
VARIABLES
  users, usersInv, usersReady,          \* ApiProvider: users cache
  channels, channelsInv, channelsReady, \* ApiProvider: channels cache
  usersFile, channelsFile,              \* snapshot files on disk
  demo, toolConfig, transport,          \* environment of the process
  apiKey, sseApiKey,                    \* SLACK_MCP_API_KEY, SLACK_MCP_SSE_API_KEY
  wpc, wq, wlist, wpages, wnext,        \* background task: position and locals
  proc,                                 \* "running", "fatal" (logger.Fatal) or "crashed"
  gw,                                   \* gateway operations the task has called, and
                                        \* "<operation> failed" for a failed listing
  hres,                                 \* what the last handler call did
  pg                                    \* a client following channels_list cursors

provVars == <<users, usersInv, usersReady, channels, channelsInv, channelsReady>>
diskVars == <<usersFile, channelsFile>>
envVars == <<demo, toolConfig, transport, apiKey, sseApiKey>>
taskVars == <<wpc, wq, wlist, wpages, wnext, proc, gw>>
vars == <<provVars, diskVars, envVars, taskVars, hres, pg>>

NoCall == [tool |-> "none"]
NoClient == [state |-> "none"]

(***************************************************************************)
(* The background task of main(): newUsersWatcher, then                    *)
(* newChannelsWatcher, on one goroutine.  Every write to a shared map, to  *)
(* a readiness flag or to a snapshot file is a step of its own, since      *)
(* handlers run concurrently and take no lock.                             *)
(***************************************************************************)
Running == proc = "running"

\* hres describes the handler call made in the latest step, if that step was
\* one; a step of the background task leaves none.
TaskStep == hres' = NoCall /\ UNCHANGED pg

\* Variant: a users watcher that does not look at the demo sentinel.
newUsersWatcherAlways ==
  /\ Running /\ wpc = "u_start"
  /\ wpc' = "u_read"
  /\ UNCHANGED <<provVars, diskVars, envVars, wq, wlist, wpages, wnext, proc, gw>>
  /\ TaskStep

\* Variant: a task that starts the channels watcher without running the
\* users watcher first.
newUsersWatcherSkipped ==
  /\ Running /\ wpc = "u_start"
  /\ wpc' = "c_start"
  /\ UNCHANGED <<provVars, diskVars, envVars, wq, wlist, wpages, wnext, proc, gw>>
  /\ TaskStep

newUsersWatcher ==
  /\ Running /\ wpc = "u_start"
  /\ wpc' = IF demo THEN "c_start" ELSE "u_read"
  /\ UNCHANGED <<provVars, diskVars, envVars, wq, wlist, wpages, wnext, proc, gw>>
  /\ TaskStep

\* RefreshUsers: ioutil.ReadFile and json.Unmarshal of the snapshot.
RefreshUsersRead ==
  /\ Running /\ wpc = "u_read"
  /\ IF usersFile.kind = "json"
       THEN /\ wq' = UnmarshalUsers(usersFile)
            /\ wpc' = IF wq' = <<>> THEN "u_load_ready" ELSE "u_load_put"
       ELSE /\ wq' = <<>>
            /\ wpc' = "u_fetch"
  /\ UNCHANGED <<provVars, diskVars, envVars, wlist, wpages, wnext, proc, gw>>
  /\ TaskStep

\* ap.users[u.ID] = u
RefreshUsersPut(at, then) ==
  /\ Running /\ wpc = at
  /\ users' = Put(users, Head(wq).ID, Head(wq))
  /\ wpc' = then
  /\ UNCHANGED <<usersInv, usersReady, channels, channelsInv, channelsReady,
                 diskVars, envVars, wq, wlist, wpages, wnext, proc, gw>>
  /\ TaskStep

\* Variant: an inverse map that keeps the first id it saw for a name.
RefreshUsersPutInvKeepingFirst(at, again, after) ==
  /\ Running /\ wpc = at
  /\ usersInv' = IF Head(wq).Name \in DOMAIN usersInv THEN usersInv
                 ELSE Put(usersInv, Head(wq).Name, Head(wq).ID)
  /\ wq' = Tail(wq)
  /\ wpc' = IF wq' = <<>> THEN after ELSE again
  /\ UNCHANGED <<users, usersReady, channels, channelsInv, channelsReady,
                 diskVars, envVars, wlist, wpages, wnext, proc, gw>>
  /\ TaskStep

\* ap.usersInv[u.Name] = u.ID, and the loop's next iteration or exit
RefreshUsersPutInv(at, again, after) ==
  /\ Running /\ wpc = at
  /\ usersInv' = Put(usersInv, Head(wq).Name, Head(wq).ID)
  /\ wq' = Tail(wq)
  /\ wpc' = IF wq' = <<>> THEN after ELSE again
  /\ UNCHANGED <<users, usersReady, channels, channelsInv, channelsReady,
                 diskVars, envVars, wlist, wpages, wnext, proc, gw>>
  /\ TaskStep

\* ap.usersReady = true; return nil.  The watcher then starts the channels watcher.
RefreshUsersReady(at) ==
  /\ Running /\ wpc = at
  /\ usersReady' = TRUE
  /\ wpc' = "c_start"
  /\ UNCHANGED <<users, usersInv, channels, channelsInv, channelsReady,
                 diskVars, envVars, wq, wlist, wpages, wnext, proc, gw>>
  /\ TaskStep

\* ap.client.GetUsersContext: an error is returned to the watcher, which exits
\* the process with logger.Fatal.
RefreshUsersFetch ==
  /\ Running /\ wpc = "u_fetch"
  /\ \/ /\ gw' = gw \cup {"GetUsersContext", "GetUsersContext failed"}
        /\ proc' = "fatal"
        /\ UNCHANGED <<wpc, wq, wlist>>
     \/ \E l \in SeqsNoRep(WorkspaceUsers, MaxUsers) :
          /\ gw' = gw \cup {"GetUsersContext"}
          /\ wlist' = l
          /\ wq' = l
          /\ wpc' = IF l = <<>> THEN "u_connect" ELSE "u_live_put"
          /\ UNCHANGED proc
  /\ UNCHANGED <<provVars, diskVars, envVars, wpages, wnext>>
  /\ TaskStep

\* GetSlackConnect: client.userBoot, then users.info for the shared IMs whose
\* counterparty is not cached.
GetSlackConnect ==
  /\ Running /\ wpc = "u_connect"
  /\ \/ /\ gw' = gw \cup {"ClientUserBoot"}
        /\ proc' = "fatal"
        /\ UNCHANGED <<wpc, wq, wlist>>
     \/ \E ims \in BootIMs :
          LET wanted(im) == (im.IsShared \/ im.IsExtShared) /\ im.User \notin DOMAIN users
              collected == SelectSeq(ims, wanted)
              res == [i \in DOMAIN collected |-> SlackUser(collected[i].User)]
          IN IF collected = <<>>
               THEN /\ gw' = gw \cup {"ClientUserBoot"}
                    /\ wpc' = "u_write"
                    /\ wq' = <<>>
                    /\ UNCHANGED <<wlist, proc>>
               ELSE \/ /\ gw' = gw \cup {"ClientUserBoot", "GetUsersInfo"}
                       /\ proc' = "fatal"
                       /\ UNCHANGED <<wpc, wq, wlist>>
                    \/ /\ gw' = gw \cup {"ClientUserBoot", "GetUsersInfo"}
                       /\ wlist' = wlist \o res
                       /\ wq' = res
                       /\ wpc' = "u_conn_put"
                       /\ UNCHANGED proc
  /\ UNCHANGED <<provVars, diskVars, envVars, wpages, wnext>>
  /\ TaskStep

\* json.MarshalIndent and ioutil.WriteFile: a failed write is only logged and
\* here leaves the file as it was.
RefreshUsersWrite ==
  /\ Running /\ wpc = "u_write"
  /\ usersFile' \in {MarshalUsers(wlist), usersFile}
  /\ wpc' = "u_ready"
  /\ wlist' = <<>>
  /\ UNCHANGED <<provVars, channelsFile, envVars, wq, wpages, wnext, proc, gw>>
  /\ TaskStep

RefreshUsers ==
  \/ RefreshUsersRead
  \/ RefreshUsersPut("u_load_put", "u_load_inv")
  \/ RefreshUsersPutInv("u_load_inv", "u_load_put", "u_load_ready")
  \/ RefreshUsersReady("u_load_ready")
  \/ RefreshUsersFetch
  \/ RefreshUsersPut("u_live_put", "u_live_inv")
  \/ RefreshUsersPutInv("u_live_inv", "u_live_put", "u_connect")
  \/ GetSlackConnect
  \/ RefreshUsersPut("u_conn_put", "u_conn_inv")
  \/ RefreshUsersPutInv("u_conn_inv", "u_conn_put", "u_write")
  \/ RefreshUsersWrite
  \/ RefreshUsersReady("u_ready")

\* Variant: a watcher that refreshes the channels again after it is done.
newChannelsWatcherPeriodic ==
  /\ Running /\ wpc \in {"c_start", "done"}
  /\ wpc' = IF demo THEN "done" ELSE "c_read"
  /\ UNCHANGED <<provVars, diskVars, envVars, wq, wlist, wpages, wnext, proc, gw>>
  /\ TaskStep

newChannelsWatcher ==
  /\ Running /\ wpc = "c_start"
  /\ wpc' = IF demo THEN "done" ELSE "c_read"
  /\ UNCHANGED <<provVars, diskVars, envVars, wq, wlist, wpages, wnext, proc, gw>>
  /\ TaskStep

\* Variant: a channels refresh that takes the users flag back while it reads.
RefreshChannelsReadResetting ==
  /\ Running /\ wpc = "c_read"
  /\ usersReady' = FALSE
  /\ IF channelsFile.kind = "json"
       THEN /\ wq' = UnmarshalChannels(channelsFile)
            /\ wpc' = IF wq' = <<>> THEN "c_load_ready" ELSE "c_load_put"
       ELSE /\ wq' = <<>>
            /\ wpc' = "c_fetch"
  /\ UNCHANGED <<users, usersInv, channels, channelsInv, channelsReady,
                 diskVars, envVars, wlist, wpages, wnext, proc, gw>>
  /\ TaskStep

\* RefreshChannels: ioutil.ReadFile and json.Unmarshal of the snapshot.
RefreshChannelsRead ==
  /\ Running /\ wpc = "c_read"
  /\ IF channelsFile.kind = "json"
       THEN /\ wq' = UnmarshalChannels(channelsFile)
            /\ wpc' = IF wq' = <<>> THEN "c_load_ready" ELSE "c_load_put"
       ELSE /\ wq' = <<>>
            /\ wpc' = "c_fetch"
  /\ UNCHANGED <<provVars, diskVars, envVars, wlist, wpages, wnext, proc, gw>>
  /\ TaskStep

\* ap.channels[c.ID] = c
RefreshChannelsPut(at, then) ==
  /\ Running /\ wpc = at
  /\ channels' = Put(channels, Head(wq).ID, Head(wq))
  /\ wpc' = then
  /\ UNCHANGED <<users, usersInv, usersReady, channelsInv, channelsReady,
                 diskVars, envVars, wq, wlist, wpages, wnext, proc, gw>>
  /\ TaskStep

\* ap.channelsInv[c.Name] = c.ID, and the loop's next iteration or exit
RefreshChannelsPutInv(at, again, after) ==
  /\ Running /\ wpc = at
  /\ channelsInv' = Put(channelsInv, Head(wq).Name, Head(wq).ID)
  /\ wq' = Tail(wq)
  /\ wpc' = IF wq' = <<>> THEN after ELSE again
  /\ UNCHANGED <<users, usersInv, usersReady, channels, channelsReady,
                 diskVars, envVars, wlist, wpages, wnext, proc, gw>>
  /\ TaskStep

\* ap.channelsReady = true; return nil.  The background task ends.
RefreshChannelsReady(at) ==
  /\ Running /\ wpc = at
  /\ channelsReady' = TRUE
  /\ wpc' = "done"
  /\ UNCHANGED <<users, usersInv, usersReady, channels, channelsInv,
                 diskVars, envVars, wq, wlist, wpages, wnext, proc, gw>>
  /\ TaskStep

\* GetChannels, one iteration up to lim.Wait: GetConversationsContext and
\* mapChannel of the page against the users map.  An error is logged and
\* leaves the loop (break); nothing is returned to the caller.
GetChannelsFetch ==
  /\ Running /\ wpc = "c_fetch"
  /\ \/ /\ gw' = gw \cup {"GetConversationsContext", "GetConversationsContext failed"}
        /\ wpc' = "c_result"
        /\ UNCHANGED <<wq, wpages, wnext>>
     \/ \E page \in ChannelPages, nextcur \in {"", "next"} :
          /\ nextcur # "" => wpages + 1 < MaxPages
          /\ gw' = gw \cup {"GetConversationsContext"}
          /\ wq' = [i \in DOMAIN page |-> mapChannel(page[i], users)]
          /\ wnext' = nextcur
          /\ wpages' = wpages + 1
          /\ wpc' = "c_wait"
  /\ UNCHANGED <<provVars, diskVars, envVars, wlist, proc>>
  /\ TaskStep

\* lim.Wait(ctx) of the Tier2boost limiter; the watcher passes
\* context.Background(), which is never cancelled.
GetChannelsWait ==
  /\ Running /\ wpc = "c_wait"
  /\ wpc' = IF wq # <<>> THEN "c_live_put"
            ELSE IF wnext = "" THEN "c_result" ELSE "c_fetch"
  /\ UNCHANGED <<provVars, diskVars, envVars, wq, wlist, wpages, wnext, proc, gw>>
  /\ TaskStep

\* if nextcur == "" { break }; params.Cursor = nextcur
GetChannelsAfterPage == IF wnext = "" THEN "c_result" ELSE "c_fetch"

Perms(S) == {q \in [1..Cardinality(S) -> S] : \A i, j \in DOMAIN q : i # j => q[i] # q[j]}

TypeMatches(t, channel) ==
  \/ t = "public_channel" /\ ~channel.IsPrivate
  \/ t = "private_channel" /\ channel.IsPrivate
  \/ t = "im" /\ channel.IsIM
  \/ t = "mpim" /\ channel.IsMpIM

\* The result list of GetChannels: for each type in turn, a range over the
\* map ap.channels (Go iterates a map in no fixed order).
RECURSIVE GetChannelsResult(_, _)
GetChannelsResult(channelTypes, cache) ==
  IF channelTypes = <<>> THEN {<<>>}
  ELSE {p \o r : p \in Perms({c \in Range(cache) : TypeMatches(Head(channelTypes), c)}),
                 r \in GetChannelsResult(Tail(channelTypes), cache)}

GetChannelsReturn ==
  /\ Running /\ wpc = "c_result"
  /\ wlist' \in GetChannelsResult(AllChanTypes, channels)
  /\ wpc' = "c_write"
  /\ wpages' = 0 /\ wnext' = ""
  /\ UNCHANGED <<provVars, diskVars, envVars, wq, proc, gw>>
  /\ TaskStep

\* json.MarshalIndent and ioutil.WriteFile of what GetChannels returned.
RefreshChannelsWrite ==
  /\ Running /\ wpc = "c_write"
  /\ channelsFile' \in {MarshalChannels(wlist), channelsFile}
  /\ wpc' = "c_ready"
  /\ wlist' = <<>>
  /\ UNCHANGED <<provVars, usersFile, envVars, wq, wpages, wnext, proc, gw>>
  /\ TaskStep

RefreshChannels ==
  \/ RefreshChannelsRead
  \/ RefreshChannelsPut("c_load_put", "c_load_inv")
  \/ RefreshChannelsPutInv("c_load_inv", "c_load_put", "c_load_ready")
  \/ RefreshChannelsReady("c_load_ready")
  \/ GetChannelsFetch
  \/ GetChannelsWait
  \/ RefreshChannelsPut("c_live_put", "c_live_inv")
  \/ RefreshChannelsPutInv("c_live_inv", "c_live_put", GetChannelsAfterPage)
  \/ GetChannelsReturn
  \/ RefreshChannelsWrite
  \/ RefreshChannelsReady("c_ready")

(***************************************************************************)
(* Provider accessors and the helpers of pkg/handler/conversations.go.     *)
(***************************************************************************)
usersNotReadyMsg == "users cache is not ready yet, sync process is still running... please wait"
channelsNotReadyMsg == "channels cache is not ready yet, sync process is still running... please wait"

ErrUsersNotReady == usersNotReadyMsg
ErrChannelsNotReady == channelsNotReadyMsg

\* ApiProvider.IsReady: the error, "" when ready.
IsReady ==
  IF ~usersReady THEN ErrUsersNotReady
  ELSE IF ~channelsReady THEN ErrChannelsNotReady
  ELSE ""

\* A Go map read m[k]: the zero value when the key is absent.
Lookup(m, k, zero) == IF k \in DOMAIN m THEN m[k] ELSE zero

ZeroUser == [ID |-> "", Name |-> "", RealName |-> ""]
ZeroChannel == [ID |-> "", Name |-> "", Topic |-> "", Purpose |-> "", MemberCount |-> 0,
                IsIM |-> FALSE, IsMpIM |-> FALSE, IsPrivate |-> FALSE]

\* %q of fmt
Quote(s) == "\"" \o s \o "\""

Digits == <<"0", "1", "2", "3", "4", "5", "6", "7", "8", "9">>
IsDigit(c) == \E i \in 1..10 : Digits[i] = c
DigitVal(c) == (CHOOSE i \in 1..10 : Digits[i] = c) - 1

RECURSIVE DecVal(_, _)
DecVal(s, acc) == IF Len(s) = 0 THEN acc ELSE DecVal(Tail(s), acc * 10 + DigitVal(CharAt(s, 1)))

AllDigits(s) == \A i \in 1..Len(s) : IsDigit(CharAt(s, i))

\* strconv.Atoi: an optional sign, then at least one decimal digit.
Atoi(s) ==
  LET signed == Len(s) > 0 /\ CharAt(s, 1) \in {"+", "-"}
      body == IF signed THEN Tail(s) ELSE s
  IN IF Len(body) = 0 \/ ~AllDigits(body) THEN [ok |-> FALSE, n |-> 0]
     ELSE [ok |-> TRUE,
           n |-> IF signed /\ CharAt(s, 1) = "-" THEN 0 - DecVal(body, 0) ELSE DecVal(body, 0)]

TrimSuffix(s, p) == IF HasSuffix(s, p) THEN SubSeq(s, 1, Len(s) - Len(p)) ELSE s

limitByNumeric(limit) ==
  LET a == Atoi(limit)
  IN IF ~a.ok THEN [err |-> "invalid numeric limit: " \o Quote(limit), limit |-> 0, days |-> 0]
     ELSE [err |-> "", limit |-> a.n, days |-> 0]

\* limitByDays: per-page limit 100 and a window of `days` days ending now.
limitByDays(limit) ==
  LET a == Atoi(TrimSuffix(limit, "d"))
  IN IF ~a.ok \/ a.n <= 0
       THEN [err |-> "invalid duration limit " \o Quote(limit)
                     \o ": must be a positive integer with 'd' suffix",
             limit |-> 0, days |-> 0]
       ELSE [err |-> "", limit |-> 100, days |-> a.n]

IsRef(channel) == HasPrefix(channel, "#") \/ HasPrefix(channel, "@")

\* parseParamsToolConversations, for history and replies.
parseParamsToolConversations(req) ==
  LET lim == IF HasSuffix(req.limit, "d") THEN limitByDays(req.limit)
             ELSE IF req.cursor = "" THEN limitByNumeric(req.limit)
             ELSE [err |-> "", limit |-> 0, days |-> 0]
      fail(e) == [err |-> e, channel |-> "", limit |-> 0, reads |-> {}]
  IN IF req.channel_id = "" THEN fail("channel_id must be a string")
     ELSE IF lim.err # "" THEN fail(lim.err)
     ELSE IF IsRef(req.channel_id)
       THEN IF IsReady # ""
              THEN fail("channel " \o Quote(req.channel_id) \o " not found in empty cache")
            ELSE IF req.channel_id \notin DOMAIN channelsInv
              THEN [fail("channel " \o Quote(req.channel_id) \o " not found in synced cache. "
                         \o "Try to remove old cache file and restart MCP Server")
                    EXCEPT !.reads = {"channels"}]
            ELSE [err |-> "",
                  channel |-> Lookup(channels, channelsInv[req.channel_id], ZeroChannel).ID,
                  limit |-> lim.limit, reads |-> {"channels"}]
     ELSE [err |-> "", channel |-> req.channel_id, limit |-> lim.limit, reads |-> {}]

\* Variant: the list is always read as an allow-list.
isChannelAllowedIgnoringNegation(config, channel) ==
  IF config = "" \/ config = "true" \/ config = "1" THEN TRUE
  ELSE \E i \in DOMAIN Split(config, ",") : TrimSpace(Split(config, ",")[i]) = channel

\* isChannelAllowed under SLACK_MCP_ADD_MESSAGE_TOOL = config.
isChannelAllowed(config, channel) ==
  IF config = "" \/ config = "true" \/ config = "1" THEN TRUE
  ELSE LET items == Split(config, ",")
           isNegated == HasPrefix(TrimSpace(items[1]), "!")
       IN IF isNegated
            THEN ~ \E i \in DOMAIN items : TrimPrefix(TrimSpace(items[i]), "!") = channel
            ELSE \E i \in DOMAIN items : TrimSpace(items[i]) = channel

addMessageDisabledMsg ==
  "by default, the conversations_add_message tool is disabled to guard Slack workspaces "
  \o "against accidental spamming."

\* Variant: the parameters are accepted without asking the policy.
parseParamsToolAddMessageUnchecked(req) ==
  IF toolConfig = "" THEN [err |-> addMessageDisabledMsg, channel |-> "", reads |-> {}]
  ELSE IF req.channel_id = "" \/ req.payload = ""
    THEN [err |-> "channel_id and payload must be strings", channel |-> "", reads |-> {}]
  ELSE [err |-> "", channel |-> req.channel_id, reads |-> {}]

\* parseParamsToolAddMessage.
parseParamsToolAddMessage(req) ==
  LET fail(e, r) == [err |-> e, channel |-> "", reads |-> r]
      prefixed == IsRef(req.channel_id)
      found == req.channel_id \in DOMAIN channelsInv
      channel == IF prefixed /\ found
                   THEN Lookup(channels, channelsInv[req.channel_id], ZeroChannel).ID
                   ELSE req.channel_id
      reads == IF prefixed THEN {"channels"} ELSE {}
  IN IF toolConfig = "" THEN fail(addMessageDisabledMsg, {})
     ELSE IF req.channel_id = "" THEN fail("channel_id must be a string", {})
     ELSE IF prefixed /\ ~found
       THEN fail("channel " \o Quote(req.channel_id) \o " not found", reads)
     ELSE IF ~isChannelAllowed(toolConfig, channel)
       THEN fail("conversations_add_message tool is not allowed for channel "
                 \o Quote(channel) \o ", applied policy: " \o toolConfig, reads)
     ELSE IF req.thread_ts # "" /\ ~Contains(req.thread_ts, ".")
       THEN fail("thread_ts must be a valid timestamp in format 1234567890.123456", reads)
     ELSE IF req.payload = "" THEN fail("text must be a string", reads)
     ELSE IF req.content_type \notin {"text/plain", "text/markdown"}
       THEN fail("content_type must be either 'text/plain' or 'text/markdown'", reads)
     ELSE [err |-> "", channel |-> channel, reads |-> reads]

\* paramFormatUser: [err, val].
paramFormatUser(raw0) ==
  LET raw == TrimSpace(raw0)
      name == IF HasPrefix(raw, "@") THEN Tail(raw) ELSE raw
  IN IF HasPrefix(raw, "U")
       THEN IF raw \in DOMAIN users
              THEN [err |-> "", val |-> "<@" \o users[raw].ID \o ">"]
              ELSE [err |-> "user " \o Quote(raw) \o " not found", val |-> ""]
     ELSE IF HasPrefix(raw, "<@") THEN [err |-> "", val |-> raw]
     ELSE IF name \in DOMAIN usersInv
       THEN [err |-> "", val |-> "@" \o Lookup(users, usersInv[name], ZeroUser).Name]
     ELSE [err |-> "user " \o Quote(name) \o " not found", val |-> ""]

\* paramFormatChannel: [err, val].
paramFormatChannel(raw0) ==
  LET raw == TrimSpace(raw0)
  IN IF HasPrefix(raw, "#")
       THEN IF raw \in DOMAIN channelsInv
              THEN [err |-> "",
                    val |-> "#" \o Lookup(channels, channelsInv[raw], ZeroChannel).Name]
              ELSE [err |-> "channel " \o Quote(raw) \o " not found", val |-> ""]
     ELSE IF HasPrefix(raw, "C")
       THEN IF raw \in DOMAIN channels
              THEN [err |-> "", val |-> "#" \o channels[raw].Name]
              ELSE [err |-> "channel " \o Quote(raw) \o " not found", val |-> ""]
     ELSE [err |-> "invalid channel format: " \o Quote(raw), val |-> ""]

(***************************************************************************)
(* Bytes of a string, string order, and encoding/base64 (StdEncoding).     *)
(***************************************************************************)
\* The printable ASCII characters, from code 32 to code 126 (code 96, which a
\* TLA+ string cannot hold, is shown as "?").
AsciiTable ==
  " !\"#$%&'()*+,-./0123456789:;<=>?@ABCDEFGHIJKLMNOPQRSTUVWXYZ[\\]^_?abcdefghijklmnopqrstuvwxyz{|}~"

Code(c) == 31 + (CHOOSE i \in 1..Len(AsciiTable) : CharAt(AsciiTable, i) = c)

\* A byte outside the printable range is shown as "?".
Chr(n) == IF n >= 32 /\ n <= 126 THEN CharAt(AsciiTable, n - 31) ELSE "?"

\* a < b on Go strings: bytewise lexicographic.
RECURSIVE Less(_, _)
Less(a, b) ==
  IF Len(b) = 0 THEN FALSE
  ELSE IF Len(a) = 0 THEN TRUE
  ELSE IF CharAt(a, 1) # CharAt(b, 1) THEN Code(CharAt(a, 1)) < Code(CharAt(b, 1))
  ELSE Less(Tail(a), Tail(b))

B64Alphabet == "ABCDEFGHIJKLMNOPQRSTUVWXYZabcdefghijklmnopqrstuvwxyz0123456789+/"

B64Char(v) == CharAt(B64Alphabet, v + 1)
IsB64Char(c) == \E i \in 1..64 : CharAt(B64Alphabet, i) = c
B64Val(c) == (CHOOSE i \in 1..64 : CharAt(B64Alphabet, i) = c) - 1

\* The i-th byte of s, 0 past its end.
ByteAt(s, i) == IF Len(s) >= i THEN Code(CharAt(s, i)) ELSE 0

\* The four characters of the 24-bit group n, of which `bytes` bytes are data.
EncodeQuantum(n, bytes) ==
  B64Char(n \div 262144)
  \o B64Char((n \div 4096) % 64)
  \o (IF bytes >= 2 THEN B64Char((n \div 64) % 64) ELSE "=")
  \o (IF bytes >= 3 THEN B64Char(n % 64) ELSE "=")

RECURSIVE EncodeToString(_)
EncodeToString(s) ==
  IF Len(s) = 0 THEN ""
  ELSE EncodeQuantum(ByteAt(s, 1) * 65536 + ByteAt(s, 2) * 256 + ByteAt(s, 3),
                     IF Len(s) > 3 THEN 3 ELSE Len(s))
       \o (IF Len(s) > 3 THEN EncodeToString(SubSeq(s, 4, Len(s))) ELSE "")

\* The bytes of the 24-bit group n read from `data` characters.
QuantumBytes(n, data) ==
  Chr(n \div 65536)
  \o (IF data >= 3 THEN Chr((n \div 256) % 256) ELSE "")
  \o (IF data = 4 THEN Chr(n % 256) ELSE "")

SextetAt(q, i, data) == IF i <= data THEN B64Val(CharAt(q, i)) ELSE 0

\* Four characters q, of which the first `data` are not padding: [ok, val].
DecodeQuantum(q, data) ==
  IF \A i \in 1..data : IsB64Char(CharAt(q, i))
    THEN [ok |-> TRUE,
          val |-> QuantumBytes(SextetAt(q, 1, data) * 262144 + SextetAt(q, 2, data) * 4096
                               + SextetAt(q, 3, data) * 64 + SextetAt(q, 4, data), data)]
    ELSE [ok |-> FALSE, val |-> ""]

Concat(a, b) ==
  IF a.ok /\ b.ok THEN [ok |-> TRUE, val |-> a.val \o b.val] ELSE [ok |-> FALSE, val |-> ""]

\* DecodeString: [ok, val].  Groups of four; padding only at the very end.
RECURSIVE DecodeString(_)
DecodeString(s) ==
  IF Len(s) = 0 THEN [ok |-> TRUE, val |-> ""]
  ELSE IF Len(s) < 4 THEN [ok |-> FALSE, val |-> ""]
  ELSE Concat(DecodeQuantum(SubSeq(s, 1, 4),
                            IF Len(s) = 4 /\ CharAt(s, 4) = "="
                              THEN (IF CharAt(s, 3) = "=" THEN 2 ELSE 3)
                              ELSE 4),
              DecodeString(SubSeq(s, 5, Len(s))))

(***************************************************************************)
(* pkg/handler/channels.go: channels_list and the channels resource.       *)
(***************************************************************************)
DefaultLimit == 100
MaxLimit == 999

\* sort.Slice by ID ascending.  Entries of equal ID are copies of one cached
\* channel, so the order among them does not show.
RECURSIVE InsertByID(_, _)
InsertByID(row, sorted) ==
  IF sorted = <<>> THEN <<row>>
  ELSE IF Less(row.ID, Head(sorted).ID) THEN <<row>> \o sorted
  ELSE <<Head(sorted)>> \o InsertByID(row, Tail(sorted))

RECURSIVE SortByID(_)
SortByID(rows) ==
  IF rows = <<>> THEN <<>> ELSE InsertByID(Head(rows), SortByID(Tail(rows)))

RECURSIVE SetToSeq(_)
SetToSeq(S) == IF S = {} THEN <<>> ELSE LET x == CHOOSE y \in S : TRUE IN <<x>> \o SetToSeq(S \ {x})

\* filterChannelsByTypes: one copy of a channel for each of the four tests it
\* passes.  The order is that of a Go map range; paginateChannels sorts it.
filterChannelsByTypes(cache, types) ==
  LET typeSet(t) == \E i \in DOMAIN types : types[i] = t
      copies(ch) ==
        (IF typeSet("public_channel") /\ ~ch.IsPrivate /\ ~ch.IsIM /\ ~ch.IsMpIM
           THEN <<ch>> ELSE <<>>)
        \o (IF typeSet("private_channel") /\ ch.IsPrivate /\ ~ch.IsIM /\ ~ch.IsMpIM
              THEN <<ch>> ELSE <<>>)
        \o (IF typeSet("im") /\ ch.IsIM THEN <<ch>> ELSE <<>>)
        \o (IF typeSet("mpim") /\ ch.IsMpIM THEN <<ch>> ELSE <<>>)
      all == SetToSeq(Range(cache))
      RECURSIVE Cat(_)
      Cat(q) == IF q = <<>> THEN <<>> ELSE copies(Head(q)) \o Cat(Tail(q))
  IN Cat(all)

\* Variant: the page starts at the cursor's own row.
startIndexAtCursor(chs, cursor, decoded) ==
  IF cursor # "" /\ decoded.ok /\ \E i \in 1..Len(chs) : ~Less(chs[i].ID, decoded.val)
    THEN (CHOOSE i \in 1..Len(chs) :
            /\ ~Less(chs[i].ID, decoded.val)
            /\ \A j \in 1..(i - 1) : Less(chs[j].ID, decoded.val)) - 1
    ELSE 0

\* The start of the page in the sorted list chs: the first index whose ID is
\* greater than the decoded cursor, 0 when there is none or the cursor does
\* not decode.  Indices are Go's, from 0.
startIndex(chs, cursor, decoded) ==
  IF cursor # "" /\ decoded.ok /\ \E i \in 1..Len(chs) : Less(decoded.val, chs[i].ID)
    THEN (CHOOSE i \in 1..Len(chs) :
            /\ Less(decoded.val, chs[i].ID)
            /\ \A j \in 1..(i - 1) : ~Less(decoded.val, chs[j].ID)) - 1
    ELSE 0

\* channels[startIndex:endIndex] and the cursor of channels[endIndex-1].
paged(chs, start, endIndex) ==
  IF endIndex < start \/ (endIndex < Len(chs) /\ endIndex - 1 < 0)
    THEN [panic |-> TRUE, paged |-> <<>>, nextCursor |-> ""]
    ELSE [panic |-> FALSE,
          paged |-> SubSeq(chs, start + 1, endIndex),
          nextCursor |-> IF endIndex < Len(chs) THEN EncodeToString(chs[endIndex].ID)
                         ELSE ""]

pageFrom(chs, start, limit) ==
  paged(chs, start, IF start + limit > Len(chs) THEN Len(chs) ELSE start + limit)

pageOf(chs, cursor, limit) ==
  pageFrom(chs, startIndex(chs, cursor, DecodeString(cursor)), limit)

\* paginateChannels: [panic, paged, nextCursor].
paginateChannels(unsorted, cursor, limit) == pageOf(SortByID(unsorted), cursor, limit)

Row(channel) == [ID |-> channel.ID, Name |-> channel.Name, Topic |-> channel.Topic,
                 Purpose |-> channel.Purpose, MemberCount |-> channel.MemberCount,
                 Cursor |-> ""]

\* sort.Slice by MemberCount descending: not stable, so any order of the rows
\* in which no row precedes one of a larger member count.
SortByPopularity(rows) ==
  {[i \in DOMAIN rows |-> rows[p[i]]] :
     p \in {p \in Perms(DOMAIN rows) :
              \A i, j \in DOMAIN rows : i < j => rows[p[i]].MemberCount >= rows[p[j]].MemberCount}}

\* The channel types of the request: the valid items of the comma list.
ChannelTypesOf(types) ==
  LET items == Split(types, ",")
      valid == SelectSeq([i \in DOMAIN items |-> TrimSpace(items[i])],
                         LAMBDA t : \E k \in DOMAIN AllChanTypes : AllChanTypes[k] = t)
  IN IF valid = <<>> THEN <<PubChanType, PrivateChanType>> ELSE valid

\* The limit ChannelsHandler pages with.
pageLimit(limit) ==
  IF limit = 0 THEN DefaultLimit ELSE IF limit > MaxLimit THEN MaxLimit ELSE limit

withCursor(rows, nextCursor) ==
  IF Len(rows) > 0 /\ nextCursor # "" THEN [rows EXCEPT ![Len(rows)].Cursor = nextCursor]
  ELSE rows

\* The answers built from one page: [err, panic, rows].
listRows(page, sort) ==
  IF page.panic THEN {[err |-> "", panic |-> TRUE, rows |-> <<>>]}
  ELSE {[err |-> "", panic |-> FALSE, rows |-> withCursor(l, page.nextCursor)] :
          l \in IF sort = "popularity"
                  THEN SortByPopularity([i \in DOMAIN page.paged |-> Row(page.paged[i])])
                  ELSE {[i \in DOMAIN page.paged |-> Row(page.paged[i])]}}

\* ChannelsHandler (channels_list): the set of results it can return.
ChannelsHandler(req) ==
  IF IsReady # "" THEN {[err |-> IsReady, panic |-> FALSE, rows |-> <<>>]}
  ELSE listRows(
         paginateChannels(filterChannelsByTypes(channels, ChannelTypesOf(req.channel_types)),
                          req.cursor, pageLimit(req.limit)),
         req.sort)

(***************************************************************************)
(* pkg/server/auth/sse_auth.go: the auth gate.                             *)
(***************************************************************************)
\* The auth value of a call's context: absent (ctx.Value(authKey{}) is not a
\* string) or the Authorization header AuthFromRequest stored.
NoAuth == [present |-> FALSE, value |-> ""]
Header(v) == [present |-> TRUE, value |-> v]

\* Variant: any Authorization header is taken for the key.
validateTokenPresentOnly(auth) ==
  IF (IF apiKey = "" THEN sseApiKey ELSE apiKey) = "" THEN ""
  ELSE IF ~auth.present THEN "missing auth"
  ELSE ""

\* validateToken: the error, "" when the token is valid.
validateToken(auth) ==
  LET keyA == IF apiKey = "" THEN sseApiKey ELSE apiKey
      keyB == IF HasPrefix(auth.value, "Bearer ") THEN TrimPrefix(auth.value, "Bearer ")
              ELSE auth.value
  IN IF keyA = "" THEN ""
     ELSE IF ~auth.present THEN "missing auth"
     ELSE IF keyA # keyB THEN "invalid auth token"
     ELSE ""

\* IsAuthenticated: the error, "" when authenticated.
IsAuthenticated(auth, transp) ==
  IF transp = "stdio" THEN ""
  ELSE IF transp \in {"sse", "http"}
    THEN IF validateToken(auth) # "" THEN "authentication error: " \o validateToken(auth)
         ELSE ""
  ELSE "unknown transport type: " \o transp

\* validateToolConfig of main(): the error, "" when the policy is accepted.
validateToolConfig(config) ==
  IF config = "" \/ config = "true" \/ config = "1" THEN ""
  ELSE LET items == Split(config, ",")
           item(i) == TrimSpace(items[i])
           hasNegated == \E i \in DOMAIN items : item(i) # "" /\ HasPrefix(item(i), "!")
           hasPositive == \E i \in DOMAIN items : item(i) # "" /\ ~HasPrefix(item(i), "!")
       IN IF hasNegated /\ hasPositive
            THEN "cannot mix allowed and disallowed (! prefixed) channels"
            ELSE ""

(***************************************************************************)
(* The tool handlers.  Each yields the set of results the call can have:   *)
(* [err, calls, reads, rows], calls being the Slack API calls made in      *)
(* order and reads the caches whose maps the call read.  `fails` names the *)
(* Slack call that answers with an error, "" when Slack answers all.       *)
(***************************************************************************)
Result(err, calls, reads, rows) ==
  [err |-> err, calls |-> calls, reads |-> reads, rows |-> rows]

\* The part of a handler after its parameters are parsed: the parse error, or
\* the Slack calls `calls` in order, then the users map for the rendering.
RECURSIVE Proceed(_, _, _, _)
Proceed(params, calls, fails, done) ==
  IF params.err # "" THEN {Result(params.err, <<>>, params.reads, <<>>)}
  ELSE IF calls = <<>> THEN {Result("", done, params.reads \cup {"users"}, <<>>)}
  ELSE IF fails = Head(calls)
    THEN {Result("slack: " \o Head(calls) \o " failed", done \o <<Head(calls)>>,
                 params.reads, <<>>)}
  ELSE Proceed(params, Tail(calls), fails, done \o <<Head(calls)>>)

ConversationsHistoryHandler(req, fails) ==
  Proceed(parseParamsToolConversations(req), <<"conversations.history">>, fails, <<>>)

\* ConversationsRepliesHandler reads thread_ts after the parameters are parsed.
threadOf(params, req) ==
  IF params.err = "" /\ req.thread_ts = ""
    THEN [params EXCEPT !.err = "thread_ts must be a string"]
    ELSE params

ConversationsRepliesHandler(req, fails) ==
  Proceed(threadOf(parseParamsToolConversations(req), req), <<"conversations.replies">>,
          fails, <<>>)

\* parseParamsToolSearch for a request without raw query, date filters and
\* cursor: the reference filters in the order the code resolves them.
searchQuery(req, inF, withF, fromF, reads) ==
  IF inF.err # "" THEN [err |-> inF.err, query |-> "", reads |-> reads]
  ELSE IF withF.err # "" THEN [err |-> withF.err, query |-> "", reads |-> reads]
  ELSE IF fromF.err # "" THEN [err |-> fromF.err, query |-> "", reads |-> reads]
  ELSE [err |-> "",
        query |-> Join((IF inF.val # "" THEN <<"in:" \o inF.val>> ELSE <<>>)
                       \o (IF fromF.val # "" THEN <<"from:" \o fromF.val>> ELSE <<>>)
                       \o (IF withF.val # "" THEN <<"with:" \o withF.val>> ELSE <<>>), " "),
        reads |-> reads]

parseParamsToolSearch(req) ==
  searchQuery(req,
    IF req.filter_in_channel # "" THEN paramFormatChannel(req.filter_in_channel)
    ELSE IF req.filter_in_im_or_mpim # "" THEN paramFormatUser(req.filter_in_im_or_mpim)
    ELSE [err |-> "", val |-> ""],
    IF req.filter_users_with # "" THEN paramFormatUser(req.filter_users_with)
    ELSE [err |-> "", val |-> ""],
    IF req.filter_users_from # "" THEN paramFormatUser(req.filter_users_from)
    ELSE [err |-> "", val |-> ""],
    (IF req.filter_in_channel # "" THEN {"channels"} ELSE {})
    \cup (IF \/ (req.filter_in_channel = "" /\ req.filter_in_im_or_mpim # "")
             \/ req.filter_users_with # ""
             \/ req.filter_users_from # ""
          THEN {"users"} ELSE {}))

ConversationsSearchHandler(req, fails) ==
  Proceed(parseParamsToolSearch(req), <<"search.messages">>, fails, <<>>)

\* ConversationsAddMessageHandler: chat.postMessage, then conversations.history
\* of the posted message to render it.
ConversationsAddMessageHandler(req, fails) ==
  Proceed(parseParamsToolAddMessage(req), <<"chat.postMessage", "conversations.history">>,
          fails, <<>>)

ChannelsListHandler(req, fails) ==
  {Result(IF r.panic THEN "panic" ELSE r.err, <<>>,
          IF r.err = "" THEN {"channels"} ELSE {}, r.rows) : r \in ChannelsHandler(req)}

\* ChannelsResource, after its own auth check: every cached channel, in the
\* order of a Go map range (the rows are given here ordered by id).
ChannelsResource(req, fails) ==
  IF IsReady # "" THEN {Result(IsReady, <<>>, {}, <<>>)}
  ELSE {Result("", <<>>, {"channels"},
               [i \in 1..Cardinality(Range(channels)) |->
                  Row(SortByID(SetToSeq(Range(channels)))[i])])}

\* What a call leaves for its caller: the request, whether the handler ran,
\* and the handler's result.
Response(tool, req, auth, invoked, r) ==
  [tool |-> tool, req |-> req, auth |-> auth, invoked |-> invoked,
   err |-> r.err, calls |-> r.calls, reads |-> r.reads, rows |-> r.rows]

denied(authErr) == Result(authErr, <<>>, {}, <<>>)

\* BuildMiddleware(transport)(next), and the IsAuthenticated call that opens
\* ChannelsResource: next runs only when the call is authenticated.
gate(tool, req, auth, authErr, next) ==
  IF authErr # "" THEN {Response(tool, req, auth, FALSE, denied(authErr))}
  ELSE {Response(tool, req, auth, TRUE, r) : r \in next}

BuildMiddleware(tool, req, auth, next) ==
  gate(tool, req, auth, IsAuthenticated(auth, transport), next)

\* One MCP call, served on its own goroutine while the process runs.
CallTool(responses) ==
  /\ Running
  /\ hres' \in responses
  /\ UNCHANGED <<provVars, diskVars, envVars, taskVars, pg>>

(***************************************************************************)
(* Process start: provider.New leaves both caches empty and not ready.     *)
(***************************************************************************)
UsersFiles == {Missing, Corrupt, MarshalUsers(<<u1, u2>>)}

ChannelsFiles ==
  {Missing, Corrupt,
   MarshalChannels(<<mapChannel(rd1, EmptyMap), mapChannel(rc1, EmptyMap)>>),
   MarshalChannels(<<>>)}

InitProvider ==
  /\ users = EmptyMap /\ usersInv = EmptyMap /\ usersReady = FALSE
  /\ channels = EmptyMap /\ channelsInv = EmptyMap /\ channelsReady = FALSE

InitTask ==
  /\ wpc = "u_start" /\ wq = <<>> /\ wlist = <<>> /\ wpages = 0 /\ wnext = ""
  /\ proc = "running" /\ gw = {}

\* The caches as a snapshot load leaves them: entries installed in list order.
RECURSIVE InstallByID(_, _)
InstallByID(list, m) ==
  IF list = <<>> THEN m
  ELSE InstallByID(Tail(list), Put(m, Head(list).ID, Head(list)))

RECURSIVE InstallByName(_, _)
InstallByName(list, m) ==
  IF list = <<>> THEN m
  ELSE InstallByName(Tail(list), Put(m, Head(list).Name, Head(list).ID))

ByID(list) == InstallByID(list, EmptyMap)
ByName(list) == InstallByName(list, EmptyMap)

\* A process whose background task has loaded both snapshots.
InitLoaded(userList, channelList) ==
  /\ users = ByID(userList) /\ usersInv = ByName(userList) /\ usersReady = TRUE
  /\ channels = ByID(channelList) /\ channelsInv = ByName(channelList)
  /\ channelsReady = TRUE
  /\ usersFile = MarshalUsers(userList)
  /\ channelsFile = MarshalChannels(channelList)
  /\ wpc = "done" /\ wq = <<>> /\ wlist = <<>> /\ wpages = 0 /\ wnext = ""
  /\ proc = "running" /\ gw = {}
  /\ demo = FALSE

(***************************************************************************)
(* Spec: the background task and the handlers, running concurrently.       *)
(***************************************************************************)
Init ==
  /\ InitProvider
  /\ InitTask
  /\ usersFile \in UsersFiles
  /\ channelsFile \in ChannelsFiles
  /\ demo \in BOOLEAN
  /\ toolConfig = "true"
  /\ transport = "stdio"
  /\ apiKey = "" /\ sseApiKey = ""
  /\ hres = NoCall
  /\ pg = NoClient

Conv(channel, limit, threadTs) ==
  [channel_id |-> channel, limit |-> limit, cursor |-> "", thread_ts |-> threadTs]

Search(inChannel, inIM, with, from) ==
  [filter_in_channel |-> inChannel, filter_in_im_or_mpim |-> inIM,
   filter_users_with |-> with, filter_users_from |-> from]

Add(channel, threadTs, payload, contentType) ==
  [channel_id |-> channel, thread_ts |-> threadTs, payload |-> payload,
   content_type |-> contentType]

List(types, sort, limit, cursor) ==
  [channel_types |-> types, sort |-> sort, limit |-> limit, cursor |-> cursor]

HistoryReqs == {Conv("#g", "1d", ""), Conv("@a", "1d", ""), Conv("C1", "1d", "")}
RepliesReqs == {Conv("#g", "1d", "1.2"), Conv("C1", "1d", "1.2")}
SearchReqs == {Search("#g", "", "", ""), Search("C1", "", "", ""), Search("", "", "", "@a")}
AddReqs == {Add("#g", "", "hi", "text/plain"), Add("C1", "", "hi", "text/plain")}
ListReqs == {List(PubChanType, "popularity", 0, "")}
ResourceReqs == {[uri |-> "slack://ws/channels"]}

History(reqs, auths, failing) ==
  \E req \in reqs, auth \in auths, fails \in failing :
    CallTool(BuildMiddleware("conversations_history", req, auth,
                             ConversationsHistoryHandler(req, fails)))

Replies(reqs, auths, failing) ==
  \E req \in reqs, auth \in auths, fails \in failing :
    CallTool(BuildMiddleware("conversations_replies", req, auth,
                             ConversationsRepliesHandler(req, fails)))

SearchMessages(reqs, auths, failing) ==
  \E req \in reqs, auth \in auths, fails \in failing :
    CallTool(BuildMiddleware("conversations_search_messages", req, auth,
                             ConversationsSearchHandler(req, fails)))

AddMessage(reqs, auths, failing) ==
  \E req \in reqs, auth \in auths, fails \in failing :
    CallTool(BuildMiddleware("conversations_add_message", req, auth,
                             ConversationsAddMessageHandler(req, fails)))

ChannelsList(reqs, auths) ==
  \E req \in reqs, auth \in auths :
    CallTool(BuildMiddleware("channels_list", req, auth, ChannelsListHandler(req, "")))

ReadChannelsResource(auths) ==
  \E req \in ResourceReqs, auth \in auths :
    CallTool(BuildMiddleware("channels_resource", req, auth, ChannelsResource(req, "")))

\* The positions of the task at which it is inside a loop that writes a map.
WritingUsers == wpc \in {"u_load_put", "u_load_inv", "u_live_put", "u_live_inv",
                         "u_conn_put", "u_conn_inv"}
WritingChannels == wpc \in {"c_load_put", "c_load_inv", "c_live_put", "c_live_inv"}

\* A handler's map read that overlaps a map write of the background task is
\* a data race on a Go map: besides reading the old or the new contents (the
\* handler steps above), the runtime may end the process ("concurrent map
\* read and map write").
ConcurrentMapAccess ==
  /\ Running
  /\ WritingUsers \/ WritingChannels
  /\ proc' = "crashed"
  /\ hres' = NoCall
  /\ UNCHANGED <<provVars, diskVars, envVars, wpc, wq, wlist, wpages, wnext, gw, pg>>

Next ==
  \/ newUsersWatcher
  \/ RefreshUsers
  \/ newChannelsWatcher
  \/ RefreshChannels
  \/ History(HistoryReqs, {NoAuth}, {""})
  \/ Replies(RepliesReqs, {NoAuth}, {""})
  \/ SearchMessages(SearchReqs, {NoAuth}, {""})
  \/ AddMessage(AddReqs, {NoAuth}, {""})
  \/ ChannelsList(ListReqs, {NoAuth})
  \/ ReadChannelsResource({NoAuth})
  \/ ConcurrentMapAccess

Spec == Init /\ [][Next]_vars

(***************************************************************************)
(* SpecPolicy: conversations_add_message under every accepted posting      *)
(* policy, on a process whose caches are loaded.                           *)
(***************************************************************************)
\* Most items of a posting policy list.
MaxItems == 2

PolicyIds == {"C1", "C2"}

\* A policy list: allow or deny, its ids in order, and the blank written
\* around each item.
Policies ==
  {[deny |-> d, ids |-> q, pad |-> b] :
     d \in BOOLEAN, q \in UNION {[1..k -> PolicyIds] : k \in 1..MaxItems}, b \in {"", " "}}

\* The value of SLACK_MCP_ADD_MESSAGE_TOOL that states policy p.
Render(p) ==
  Join([i \in DOMAIN p.ids |-> p.pad \o (IF p.deny THEN "!" ELSE "") \o p.ids[i] \o p.pad], ",")

PolicyConfigs == {"", "true", "1"} \cup {Render(p) : p \in Policies}

LoadedUsers == <<u1, u2>>
LoadedChannels ==
  <<mapChannel(rc1, ByID(LoadedUsers)), mapChannel(rc2, ByID(LoadedUsers)),
    mapChannel(rd1, ByID(LoadedUsers))>>

\* main() leaves through validateToolConfig before it serves anything.
InitPolicy ==
  /\ InitLoaded(LoadedUsers, LoadedChannels)
  /\ toolConfig \in PolicyConfigs
  /\ validateToolConfig(toolConfig) = ""
  /\ transport = "stdio"
  /\ apiKey = "" /\ sseApiKey = ""
  /\ hres = NoCall
  /\ pg = NoClient

PolicyReqs ==
  {Add(c, t, text, ct) :
     c \in {"C1", "C2", "C3", "#g", "#s", "#zz", ""}, t \in {"", "1.2", "12"},
     text \in {"hi", ""}, ct \in {"text/plain", "text/html"}}

PolicyFailing == {"", "chat.postMessage", "conversations.history"}

NextPolicy == AddMessage(PolicyReqs, {NoAuth}, PolicyFailing)

SpecPolicy == InitPolicy /\ [][NextPolicy]_vars

(***************************************************************************)
(* SpecAuth: every tool and the channels resource behind the auth gate,    *)
(* for each transport and each configuration of the two key variables.     *)
(***************************************************************************)
AuthValues ==
  {NoAuth} \cup {Header(v) : v \in {"", "k", "Bearer k", "Bearer Bearer k", "bearer k",
                                    "s", "Bearer s", "Bearer x", "Bearer "}}

InitAuth ==
  /\ InitLoaded(LoadedUsers, LoadedChannels)
  /\ toolConfig = "true"
  /\ transport \in {"stdio", "sse", "http"}
  /\ apiKey \in {"", "k", "Bearer k"}
  /\ sseApiKey \in {"", "s"}
  /\ hres = NoCall
  /\ pg = NoClient

NextAuth ==
  \/ History(HistoryReqs, AuthValues, {""})
  \/ Replies(RepliesReqs, AuthValues, {""})
  \/ SearchMessages(SearchReqs, AuthValues, {""})
  \/ AddMessage(AddReqs, AuthValues, {""})
  \/ ChannelsList(ListReqs, AuthValues)
  \/ ReadChannelsResource(AuthValues)

SpecAuth == InitAuth /\ [][NextAuth]_vars

(***************************************************************************)
(* SpecPaginate: a client that lists the channels of a loaded cache page   *)
(* by page, passing back the cursor of the last row it received.           *)
(***************************************************************************)
\* Largest small page size the client asks for (besides MaxLimit).
MaxPageLimit == 3

Cached(id, name, count, private, im) ==
  [ID |-> id, Name |-> name, Topic |-> "", Purpose |-> "", MemberCount |-> count,
   IsIM |-> im, IsMpIM |-> FALSE, IsPrivate |-> private]

\* Ids whose order as strings differs from their order as numbers, and
\* member counts that do not follow the ids.
PageChannels ==
  {Cached("A1", "#x", 1, FALSE, FALSE), Cached("A10", "#w", 3, FALSE, FALSE),
   Cached("A2", "#y", 5, FALSE, FALSE), Cached("A3", "#z", 5, TRUE, FALSE),
   Cached("D1", "@a", 2, FALSE, TRUE)}

InitPaginate ==
  /\ \E S \in SUBSET PageChannels : InitLoaded(LoadedUsers, SetToSeq(S))
  /\ toolConfig = "true"
  /\ transport = "stdio"
  /\ apiKey = "" /\ sseApiKey = ""
  /\ hres = NoCall
  /\ pg = NoClient

PageReqs ==
  {List(types, sort, limit, "") :
     types \in {"", "public_channel", "im, public_channel,private_channel"},
     sort \in {"popularity", "name"},
     limit \in (1..MaxPageLimit) \cup {MaxLimit}}

\* The cursor a client finds in a page: that of its last row.
CursorOf(rows) == IF rows = <<>> THEN "" ELSE rows[Len(rows)].Cursor

\* The client after the answer `resp` to `req`, having `pages` before.
Followed(req, pages, resp) ==
  IF resp.err # "" THEN [state |-> "failed", req |-> req, pages |-> pages]
  ELSE [state |-> IF CursorOf(resp.rows) = "" THEN "done" ELSE "more",
        req |-> [req EXCEPT !.cursor = ""],
        pages |-> Append(pages, resp.rows)]

ListPage(req, pages) ==
  /\ Running
  /\ \E resp \in BuildMiddleware("channels_list", req, NoAuth, ChannelsListHandler(req, "")) :
       /\ hres' = resp
       /\ pg' = Followed(req, pages, resp)
  /\ UNCHANGED <<provVars, diskVars, envVars, taskVars>>

StartListing ==
  /\ pg.state = "none"
  /\ \E req \in PageReqs : ListPage(req, <<>>)

FollowCursor ==
  /\ pg.state = "more"
  /\ ListPage([pg.req EXCEPT !.cursor = CursorOf(pg.pages[Len(pg.pages)])], pg.pages)

NextPaginate == StartListing \/ FollowCursor

SpecPaginate == InitPaginate /\ [][NextPaginate]_vars

(***************************************************************************)
(* Properties.                                                             *)
(***************************************************************************)
Called == hres.tool # "none"

\* The positions of the task between the first and the last map write of a
\* users refresh, and of a channels refresh.
InstallingUsers ==
  wpc \in {"u_load_put", "u_load_inv", "u_live_put", "u_live_inv", "u_connect",
           "u_conn_put", "u_conn_inv"}
InstallingChannels ==
  wpc \in {"c_load_put", "c_load_inv", "c_fetch", "c_wait", "c_live_put", "c_live_inv"}

\* C1: a handler that reads the users maps or the channels maps while a
\* refresh runs finds in the pair either none of the refresh's entries or all
\* of them: it never reads a pair between the first and the last write of the
\* refresh.
C1_NoTornRead ==
  Called =>
    /\ "users" \in hres.reads =>
         (users = EmptyMap /\ usersInv = EmptyMap) \/ ~InstallingUsers
    /\ "channels" \in hres.reads =>
         (channels = EmptyMap /\ channelsInv = EmptyMap) \/ ~InstallingChannels

\* C2: once a page fetch of a live refresh has failed, the process is ended
\* (FATAL), the collection's readiness flag is not set and its snapshot
\* file is not written.
C2_FetchFailureIsFatal ==
  [][/\ "GetUsersContext failed" \in gw' =>
          proc' = "fatal" /\ ~usersReady' /\ usersFile' = usersFile
     /\ "GetConversationsContext failed" \in gw' =>
          proc' = "fatal" /\ ~channelsReady' /\ channelsFile' = channelsFile]_vars

\* The channel a request of conversations_add_message resolves to, when its
\* reference resolves.
Resolvable(req) ==
  req.channel_id # "" /\ (IsRef(req.channel_id) => req.channel_id \in DOMAIN channelsInv)
ResolvedChannel(req) ==
  IF IsRef(req.channel_id) THEN channels[channelsInv[req.channel_id]].ID ELSE req.channel_id

PolicyRefused(call) ==
  HasPrefix(call.err, "conversations_add_message tool is not allowed for channel ")

\* What policy p says of channel ch.
Allowed(p, ch) ==
  IF p.deny THEN \A i \in DOMAIN p.ids : p.ids[i] # ch
  ELSE \E i \in DOMAIN p.ids : p.ids[i] = ch

PolicyAllows(config, ch) ==
  config \in {"true", "1"} \/ \E p \in Policies : config = Render(p) /\ Allowed(p, ch)

ConfiguredKey == IF apiKey # "" THEN apiKey ELSE sseApiKey
Unprefixed(v) == IF HasPrefix(v, "Bearer ") THEN SubSeq(v, 8, Len(v)) ELSE v

\* C5: on sse and http with a key configured the handler runs exactly when
\* the call carries an Authorization value equal to the key once an optional
\* "Bearer " is removed, and a call it does not run for gets an
\* authentication error; on stdio, and with no key, every call runs.
C5_AuthGate ==
  Called =>
    IF transport \in {"sse", "http"} /\ ConfiguredKey # ""
      THEN /\ hres.invoked <=>
                (hres.auth.present /\ Unprefixed(hres.auth.value) = ConfiguredKey)
           /\ ~hres.invoked =>
                /\ HasPrefix(hres.err, "authentication error: ")
                /\ hres.calls = <<>> /\ hres.rows = <<>> /\ hres.reads = {}
      ELSE hres.invoked

C5_Witness ==
  /\ Called /\ transport = "http" /\ apiKey = "k"
  /\ hres.auth = Header("Bearer x")
  /\ ~hres.invoked
  /\ hres.err = "authentication error: invalid auth token"

\* C6: both readiness flags start false, and no step takes a flag that is
\* true back to false.
C6_FlagsMonotone ==
  /\ ~usersReady /\ ~channelsReady
  /\ [][(usersReady => usersReady') /\ (channelsReady => channelsReady')]_vars

C6_Witness ==
  /\ usersReady /\ channelsReady
  /\ Called /\ hres.tool = "conversations_history" /\ hres.err = ""

UsersGateway == {"GetUsersContext", "ClientUserBoot", "GetUsersInfo"}
ChannelsGateway == {"GetConversationsContext"}

\* C7: a collection whose snapshot parses becomes ready holding exactly the
\* snapshot's entries, with no gateway call; one whose snapshot is missing or
\* does not parse goes to the live fetch with nothing installed; and a
\* collection is ready only after a load or after a live fetch that succeeded.
C7_ReadyByLoadOrLive ==
  /\ wpc \in {"u_load_put", "u_load_inv", "u_load_ready"} =>
       usersFile.kind = "json" /\ gw \cap UsersGateway = {}
  /\ wpc \in {"c_load_put", "c_load_inv", "c_load_ready"} =>
       channelsFile.kind = "json" /\ gw \cap ChannelsGateway = {}
  /\ wpc = "u_fetch" =>
       usersFile.kind # "json" /\ users = EmptyMap /\ usersInv = EmptyMap
  /\ (wpc = "c_fetch" /\ wpages = 0) =>
       channelsFile.kind # "json" /\ channels = EmptyMap /\ channelsInv = EmptyMap
  /\ usersReady =>
       \/ /\ gw \cap UsersGateway = {}
          /\ usersFile.kind = "json"
          /\ users = ByID(UnmarshalUsers(usersFile))
          /\ usersInv = ByName(UnmarshalUsers(usersFile))
       \/ "GetUsersContext" \in gw /\ "GetUsersContext failed" \notin gw
  /\ channelsReady =>
       \/ /\ gw \cap ChannelsGateway = {}
          /\ channelsFile.kind = "json"
          /\ channels = ByID(UnmarshalChannels(channelsFile))
          /\ channelsInv = ByName(UnmarshalChannels(channelsFile))
       \/ /\ "GetConversationsContext" \in gw
          /\ "GetConversationsContext failed" \notin gw

RefTools == {"conversations_history", "conversations_replies",
             "conversations_search_messages", "conversations_add_message"}

\* The reference of a call: its channel, or the first filter of a search.
Reference(call) ==
  IF call.tool # "conversations_search_messages" THEN call.req.channel_id
  ELSE IF call.req.filter_in_channel # "" THEN call.req.filter_in_channel
  ELSE IF call.req.filter_in_im_or_mpim # "" THEN call.req.filter_in_im_or_mpim
  ELSE IF call.req.filter_users_with # "" THEN call.req.filter_users_with
  ELSE call.req.filter_users_from

\* The cache a reference is resolved in is not ready.
NeededNotReady(call) ==
  IF call.tool = "conversations_search_messages" /\ call.req.filter_in_channel = ""
    THEN ~usersReady
    ELSE ~channelsReady

IsNotReadyError(err) ==
  \/ err \in {ErrUsersNotReady, ErrChannelsNotReady}
  \/ HasSuffix(err, " not found in empty cache")

\* C8: a history, replies, search or add-message call with a "#" or "@"
\* reference made while the cache it needs is not ready gets a not-ready
\* error and makes no Slack call; a call with an id goes to Slack whatever
\* the flags are.
C8_RefsNeedReadiness ==
  (Called /\ hres.tool \in RefTools) =>
    /\ (IsRef(Reference(hres)) /\ NeededNotReady(hres)) =>
         IsNotReadyError(hres.err) /\ hres.calls = <<>>
    /\ ~IsRef(Reference(hres)) => hres.calls # <<>>

\* The kind of a not-ready error, as a client reads it from the error.
KindOf(err) ==
  IF Contains(err, usersNotReadyMsg) THEN "users"
  ELSE IF Contains(err, channelsNotReadyMsg) THEN "channels"
  ELSE "none"

\* C9: a call that fails because a cache is not ready gets an error of the
\* kind of the cache that is hydrating (users first, then channels), and
\* channels_list and the channels resource answer with such an error and no
\* rows until both flags are true.
C9_NotReadyKinds ==
  (Called /\ IsReady # "") =>
    /\ (hres.tool \in {"conversations_history", "conversations_replies"}
        /\ IsRef(hres.req.channel_id)) =>
         KindOf(hres.err) = (IF ~usersReady THEN "users" ELSE "channels")
    /\ hres.tool \in {"channels_list", "channels_resource"} =>
         /\ KindOf(hres.err) = (IF ~usersReady THEN "users" ELSE "channels")
         /\ hres.rows = <<>>

IDs(rows) == [i \in DOMAIN rows |-> rows[i].ID]

KindOfChannel(ch) ==
  IF ch.IsIM THEN "im" ELSE IF ch.IsMpIM THEN "mpim"
  ELSE IF ch.IsPrivate THEN "private_channel" ELSE "public_channel"

\* The cached channels of the requested kinds, ordered by id.
IdSorted(types) ==
  CHOOSE q \in Perms({ch \in Range(channels) :
                        \E k \in DOMAIN ChannelTypesOf(types) :
                          ChannelTypesOf(types)[k] = KindOfChannel(ch)}) :
    \A i, j \in DOMAIN q : i < j => Less(q[i].ID, q[j].ID)

RECURSIVE Flatten(_)
Flatten(pages) == IF pages = <<>> THEN <<>> ELSE Head(pages) \o Flatten(Tail(pages))

Min(a, b) == IF a < b THEN a ELSE b

\* The i-th page of `expected` for page size `limit`.
Slice(expected, i, limit) ==
  SubSeq(expected, (i - 1) * limit + 1, Min(i * limit, Len(expected)))

PageAsExpected(page, slice, sort, more) ==
  /\ Len(page) = Len(slice)
  /\ {page[i].ID : i \in DOMAIN page} = {slice[i].ID : i \in DOMAIN slice}
  /\ sort # "popularity" => IDs(page) = IDs(slice)
  /\ sort = "popularity" =>
       \A i, j \in DOMAIN page : i < j => page[i].MemberCount >= page[j].MemberCount
  /\ CursorOf(page) = (IF more THEN EncodeToString(slice[Len(slice)].ID) ELSE "")

PagesAsExpected(pages, expected, req, done) ==
  /\ \A i \in DOMAIN pages :
       PageAsExpected(pages[i], Slice(expected, i, req.limit), req.sort,
                      i * req.limit < Len(expected))
  /\ done => Len(pages) * req.limit >= Len(expected)

\* C10 as stated: the rows of a finished listing, page after page, are the
\* cached channels of the requested kinds in id order.
C10_ConcatenationIsIdSorted ==
  pg.state = "done" => IDs(Flatten(pg.pages)) = IDs(IdSorted(pg.req.channel_types))

\* C10: page i of a listing holds exactly the i-th run of `limit` channels of
\* the id-ordered list: in id order for a sort other than "popularity", and
\* by member count descending for sort "popularity"; every page but the last
\* carries the base64 of the last id of its run as cursor, and a finished
\* listing has covered the whole list, every channel once.
C10_PagesFollowIdOrder ==
  pg.state \in {"more", "done"} =>
    PagesAsExpected(pg.pages, IdSorted(pg.req.channel_types), pg.req, pg.state = "done")

C10_Witness ==
  /\ pg.state = "done"
  /\ pg.req.sort = "popularity" /\ pg.req.limit = 2
  /\ Len(pg.pages) = 2
  /\ IDs(pg.pages[1]) = <<"A2", "A1">>
  /\ CursorOf(pg.pages[1]) = "QTI="
  /\ IDs(pg.pages[2]) = <<"A3">>
  /\ CursorOf(pg.pages[2]) = ""


(***************************************************************************)
(* SpecHistory: a client that reads the history of a channel, or the       *)
(* replies of a thread, page by page: Slack holds the messages in pages    *)
(* and hands out a continuation cursor with every page but the last.       *)
(***************************************************************************)
\* Messages of a Slack page, and pages Slack holds for one conversation.
MaxMessages == 2
MaxHistoryPages == 2

SlackMessage(user, subType, ts) ==
  [User |-> user, SubType |-> subType, Timestamp |-> ts, ThreadTimestamp |-> ""]

\* A message a user wrote, and an activity message (one with a subtype).
msgText == SlackMessage("U1", "", "1.1")
msgJoin == SlackMessage("U9", "channel_join", "1.2")

SlackPages ==
  UNION {[1..n -> {msgText, msgJoin}] : n \in 1..MaxMessages}
SlackHistories ==
  UNION {[1..n -> SlackPages] : n \in 1..MaxHistoryPages}

\* Slack's continuation cursor that leads to page i, and the page a cursor
\* leads to.
SlackCursor(i) == "dXNlcjpV" \o Digits[i + 1]
SlackPageOf(cursor, store) ==
  IF cursor = "" THEN 1 ELSE CHOOSE i \in DOMAIN store : SlackCursor(i) = cursor

\* GetConversationHistoryContext / GetConversationRepliesContext: the page
\* the request's cursor leads to, has_more and the next cursor.
SlackResponse(store, cursor) ==
  [Messages |-> store[SlackPageOf(cursor, store)],
   HasMore |-> SlackPageOf(cursor, store) < Len(store),
   NextCursor |-> IF SlackPageOf(cursor, store) < Len(store)
                    THEN SlackCursor(SlackPageOf(cursor, store) + 1) ELSE ""]

getUserInfo(userID, usersMap) ==
  IF userID \in DOMAIN usersMap
    THEN [userName |-> usersMap[userID].Name, realName |-> usersMap[userID].RealName]
    ELSE [userName |-> userID, realName |-> userID]

\* A row of the tool's output (the text column apart).
Message(msg, channel, info) ==
  [UserID |-> msg.User, UserName |-> info.userName, RealName |-> info.realName,
   Channel |-> channel, ThreadTs |-> msg.ThreadTimestamp, Time |-> msg.Timestamp,
   Cursor |-> ""]

RECURSIVE convertMessagesFromHistory(_, _, _)
convertMessagesFromHistory(slackMessages, channel, includeActivity) ==
  IF slackMessages = <<>> THEN <<>>
  ELSE IF Head(slackMessages).SubType # "" /\ ~includeActivity
    THEN convertMessagesFromHistory(Tail(slackMessages), channel, includeActivity)
  ELSE <<Message(Head(slackMessages), channel, getUserInfo(Head(slackMessages).User, users))>>
       \o convertMessagesFromHistory(Tail(slackMessages), channel, includeActivity)

\* if len(messages) > 0 && hasMore { messages[len(messages)-1].Cursor = nextCursor }
attachCursor(messages, hasMore, nextCursor) ==
  IF Len(messages) > 0 /\ hasMore
    THEN [messages EXCEPT ![Len(messages)].Cursor = nextCursor]
    ELSE messages

\* ConversationsHistoryHandler and ConversationsRepliesHandler when Slack
\* answers `resp` to the call `api`.
conversationRows(params, api, activity, resp) ==
  IF params.err # "" THEN Result(params.err, <<>>, params.reads, <<>>)
  ELSE Result("", <<api>>, params.reads \cup {"users"},
              attachCursor(convertMessagesFromHistory(resp.Messages, params.channel, activity),
                           resp.HasMore, resp.NextCursor))

ConversationsHistoryPage(req, resp) ==
  conversationRows(parseParamsToolConversations(req), "conversations.history",
                   req.include_activity_messages, resp)

ConversationsRepliesPage(req, resp) ==
  conversationRows(threadOf(parseParamsToolConversations(req), req), "conversations.replies",
                   req.include_activity_messages, resp)

HistoryReq(tool, activity) ==
  [tool |-> tool, channel_id |-> "C1", limit |-> "50", cursor |-> "",
   thread_ts |-> IF tool = "conversations_replies" THEN "1.1" ELSE "",
   include_activity_messages |-> activity]

HistoryClientReqs ==
  {HistoryReq(tool, activity) :
     tool \in {"conversations_history", "conversations_replies"}, activity \in BOOLEAN}

InitHistory ==
  /\ InitLoaded(LoadedUsers, LoadedChannels)
  /\ toolConfig = "true"
  /\ transport = "stdio"
  /\ apiKey = "" /\ sseApiKey = ""
  /\ hres = NoCall
  /\ \E store \in SlackHistories, req \in HistoryClientReqs :
       pg = [state |-> "start", req |-> req, store |-> store, pages |-> <<>>,
             last |-> SlackResponse(store, "")]

\* The client after the answer `r` of the handler, Slack having answered `resp`.
Read(r, resp) ==
  [pg EXCEPT !.state = IF r.err # "" THEN "failed"
                       ELSE IF CursorOf(r.rows) = "" THEN "done" ELSE "more",
             !.pages = Append(pg.pages, r.rows),
             !.last = resp]

ReadPage(req) ==
  /\ Running
  /\ hres' = Response(req.tool, req, NoAuth, TRUE,
                      IF req.tool = "conversations_history"
                        THEN ConversationsHistoryPage(req, SlackResponse(pg.store, req.cursor))
                        ELSE ConversationsRepliesPage(req, SlackResponse(pg.store, req.cursor)))
  /\ pg' = Read(hres', SlackResponse(pg.store, req.cursor))
  /\ UNCHANGED <<provVars, diskVars, envVars, taskVars>>

StartReading ==
  /\ pg.state = "start"
  /\ ReadPage(pg.req)

FollowHistoryCursor ==
  /\ pg.state = "more"
  /\ ReadPage([pg.req EXCEPT !.cursor = CursorOf(pg.pages[Len(pg.pages)])])

NextHistory == StartReading \/ FollowHistoryCursor

SpecHistory == InitHistory /\ [][NextHistory]_vars

\* C11: the last row of a page carries Slack's cursor whenever Slack reports
\* has_more, no other row carries a cursor, no row carries one when has_more
\* is false, and a client that follows the cursors until none is returned
\* has read every page Slack holds.
C11_CursorFollowsHasMore ==
  pg.state \in {"more", "done"} =>
    /\ pg.last.HasMore =>
         /\ pg.pages[Len(pg.pages)] # <<>>
         /\ CursorOf(pg.pages[Len(pg.pages)]) = pg.last.NextCursor
    /\ ~pg.last.HasMore => CursorOf(pg.pages[Len(pg.pages)]) = ""
    /\ \A i \in 1..(Len(pg.pages[Len(pg.pages)]) - 1) : pg.pages[Len(pg.pages)][i].Cursor = ""
    /\ pg.state = "done" => Len(pg.pages) = Len(pg.store)


(***************************************************************************)
(* SpecStartup: main() from its first statement, with demo credentials     *)
(* (the watchers return at once): the posting policy is validated, then    *)
(* the provider and the server are built and conversations_add_message is  *)
(* served.                                                                 *)
(***************************************************************************)
\* Policies with unlike items and with empty items, besides the well-formed.
StartupConfigs ==
  PolicyConfigs \cup {"C1,!C2", "!C1,C2", "C1, !C2", ",!C1", " , !C2", "!C1,", ",C1", "C1,"}

InitStartup ==
  /\ InitProvider
  /\ InitTask
  /\ usersFile = Missing /\ channelsFile = Missing
  /\ demo = TRUE
  /\ toolConfig \in StartupConfigs
  /\ transport = "stdio"
  /\ apiKey = "" /\ sseApiKey = ""
  /\ hres = NoCall
  /\ pg = [state |-> "main"]

\* main(): validateToolConfig and logger.Fatal on its error, or provider.New,
\* server.NewMCPServer and the start of the background task.
main ==
  /\ Running /\ pg.state = "main"
  /\ IF validateToolConfig(toolConfig) # ""
       THEN proc' = "fatal" /\ pg' = pg
       ELSE proc' = proc /\ pg' = [state |-> "serving"]
  /\ hres' = NoCall
  /\ UNCHANGED <<provVars, diskVars, envVars, wpc, wq, wlist, wpages, wnext, gw>>

StartupReqs ==
  {Add(c, "", "hi", "text/plain") : c \in {"C1", "C2", "C3", "#g", "#zz"}}

Serving == pg.state = "serving"

NextStartup ==
  \/ main
  \/ Serving /\ newUsersWatcher
  \/ Serving /\ newChannelsWatcher
  \/ Serving /\ AddMessage(StartupReqs, {NoAuth}, PolicyFailing)

SpecStartup == InitStartup /\ [][NextStartup]_vars

\* The items of a policy list: what is written between the commas, blanks
\* and empty items apart.
RECURSIVE ItemsOf(_)
ItemsOf(parts) ==
  IF parts = <<>> THEN <<>>
  ELSE (IF TrimSpace(Head(parts)) = "" THEN <<>> ELSE <<TrimSpace(Head(parts))>>)
       \o ItemsOf(Tail(parts))

IsList(config) == config \notin {"", "true", "1"}
Negated(config) ==
  {i \in DOMAIN ItemsOf(Split(config, ",")) : HasPrefix(ItemsOf(Split(config, ","))[i], "!")}
Mixed(config) ==
  IsList(config) /\ Negated(config) # {}
  /\ Negated(config) # DOMAIN ItemsOf(Split(config, ","))

lowerOf ==
  [A |-> "a", B |-> "b", C |-> "c", D |-> "d", E |-> "e", F |-> "f", G |-> "g", H |-> "h",
   I |-> "i", J |-> "j", K |-> "k", L |-> "l", M |-> "m", N |-> "n", O |-> "o", P |-> "p",
   Q |-> "q", R |-> "r", S |-> "s", T |-> "t", U |-> "u", V |-> "v", W |-> "w", X |-> "x",
   Y |-> "y", Z |-> "z"]

IsLetter(c) == c \in DOMAIN lowerOf \/ c \in Range(lowerOf)

RECURSIVE ToLower(_)
ToLower(s) ==
  IF Len(s) = 0 THEN ""
  ELSE (IF CharAt(s, 1) \in DOMAIN lowerOf THEN lowerOf[CharAt(s, 1)] ELSE CharAt(s, 1))
       \o ToLower(Tail(s))

RECURSIVE Itoa(_)
Itoa(n) == IF n < 10 THEN Digits[n + 1] ELSE Itoa(n \div 10) \o Digits[(n % 10) + 1]

\* n in decimal, with zeros in front up to width w.
RECURSIVE Pad(_, _)
Pad(text, w) == IF Len(text) >= w THEN text ELSE Pad("0" \o text, w)

IsLeap(y) == (y % 4 = 0 /\ y % 100 # 0) \/ y % 400 = 0

daysIn(m, y) ==
  IF m = 2 THEN (IF IsLeap(y) THEN 29 ELSE 28)
  ELSE IF m \in {4, 6, 9, 11} THEN 30 ELSE 31

\* The day number of the civil date y-m-d (proleptic Gregorian calendar).
DaysFromCivil(y, m, d) ==
  LET yy == IF m <= 2 THEN y - 1 ELSE y
      yoe == yy - (yy \div 400) * 400
      doy == (153 * ((m + 9) % 12) + 2) \div 5 + d - 1
  IN (yy \div 400) * 146097 + yoe * 365 + yoe \div 4 - yoe \div 100 + doy - 719468

\* The civil date of a day number, from the day of its 400-year era.
CivilOfEra(era, doe, yoe) ==
  LET doy == doe - (365 * yoe + yoe \div 4 - yoe \div 100)
      mp == (5 * doy + 2) \div 153
      m == IF mp < 10 THEN mp + 3 ELSE mp - 9
  IN [year |-> yoe + era * 400 + (IF m <= 2 THEN 1 ELSE 0), month |-> m,
      day |-> doy - (153 * mp + 2) \div 5 + 1]

CivilOfDoe(era, doe) ==
  CivilOfEra(era, doe, (doe - doe \div 1460 + doe \div 36524 - doe \div 146096) \div 365)

CivilFromDays(n) ==
  CivilOfDoe((n + 719468) \div 146097, (n + 719468) - ((n + 719468) \div 146097) * 146097)

\* time.Date(year, month, day, 0, 0, 0, 0, time.UTC): a day past the end of
\* the month runs over into the next ones.
Date(year, month, day) == DaysFromCivil(year, month, 1) + day - 1

\* AddDate(0, 0, days) on a time at midnight UTC.
AddDate(t, days) == t + days

\* The year of Format: four digits at least, the sign in front.
FormatYear(y) == IF y < 0 THEN "-" \o Pad(Itoa(0 - y), 4) ELSE Pad(Itoa(y), 4)

\* t.Format("2006-01-02")
FormatCivil(c) == FormatYear(c.year) \o "-" \o Pad(Itoa(c.month), 2) \o "-" \o Pad(Itoa(c.day), 2)
Format(t) == FormatCivil(CivilFromDays(t))

\* The month names of package time, in lower case: the parser matches them
\* letter case apart.
shortMonthNames ==
  <<"jan", "feb", "mar", "apr", "may", "jun", "jul", "aug", "sep", "oct", "nov", "dec">>
longMonthNames ==
  <<"january", "february", "march", "april", "may", "june", "july", "august",
    "september", "october", "november", "december">>

\* lookup(tab, val) of package time: the first name of tab that val starts
\* with, letter case apart; 0 when there is none.
RECURSIVE lookupFrom(_, _, _)
lookupFrom(tab, lowerVal, i) ==
  IF i > Len(tab) THEN 0
  ELSE IF HasPrefix(lowerVal, tab[i]) THEN i
  ELSE lookupFrom(tab, lowerVal, i + 1)

lookup(tab, val) == lookupFrom(tab, ToLower(val), 1)

RECURSIVE cutspace(_)
cutspace(s) == IF Len(s) > 0 /\ CharAt(s, 1) = " " THEN cutspace(Tail(s)) ELSE s

\* getnum(s, fixed): one or two digits, two when fixed; 0 digits on failure.
getnum(s, fixed) ==
  IF Len(s) = 0 \/ ~IsDigit(CharAt(s, 1)) THEN 0
  ELSE IF Len(s) < 2 \/ ~IsDigit(CharAt(s, 2)) THEN (IF fixed THEN 0 ELSE 1)
  ELSE 2

\* One element of a layout against the front of value: the text it takes
\* ("" when it does not match) and, for an element that matched, the rest.
Taken(elem, value) ==
  IF elem = "2006" THEN (IF Len(value) >= 4 /\ AllDigits(SubSeq(value, 1, 4)) THEN 4 ELSE 0)
  ELSE IF elem \in {"01", "02"} THEN getnum(value, TRUE)
  ELSE IF elem = "2" THEN getnum(value, FALSE)
  ELSE IF elem = "Jan"
    THEN (IF lookup(shortMonthNames, value) # 0 THEN 3 ELSE 0)
  ELSE IF elem = "January"
    THEN (IF lookup(longMonthNames, value) # 0
            THEN Len(longMonthNames[lookup(longMonthNames, value)]) ELSE 0)
  ELSE IF elem = " "
    THEN (IF Len(value) > 0 /\ CharAt(value, 1) # " " THEN 0
          ELSE IF Len(value) = 0 THEN 0 ELSE Len(value) - Len(cutspace(value)))
  ELSE IF HasPrefix(value, elem) THEN Len(elem) ELSE 0

\* The fields read so far, after `elem` took `text`.
Field(acc, elem, text) ==
  IF elem = "2006" THEN [acc EXCEPT !.year = DecVal(text, 0)]
  ELSE IF elem = "01" THEN [acc EXCEPT !.month = DecVal(text, 0)]
  ELSE IF elem \in {"02", "2"} THEN [acc EXCEPT !.day = DecVal(text, 0)]
  ELSE IF elem = "Jan" THEN [acc EXCEPT !.month = lookup(shortMonthNames, text)]
  ELSE IF elem = "January" THEN [acc EXCEPT !.month = lookup(longMonthNames, text)]
  ELSE acc

NoTime == [ok |-> FALSE, t |-> 0, s |-> ""]
Time(t) == [ok |-> TRUE, t |-> t, s |-> Format(t)]

\* time.Parse(layout, value): every element matches in turn, nothing is left
\* over, the month is one of 1..12 and the day exists in the month.
RECURSIVE Parse(_, _, _)
RECURSIVE ParseTaken(_, _, _, _)
Parse(layout, value, acc) ==
  IF layout = <<>>
    THEN IF Len(value) = 0 /\ acc.month \in 1..12
            /\ acc.day >= 1 /\ acc.day <= daysIn(acc.month, acc.year)
           THEN Time(Date(acc.year, acc.month, acc.day))
           ELSE NoTime
  ELSE ParseTaken(layout, value, acc, Taken(Head(layout), value))

\* The first element of the layout has taken n characters of value.
ParseTaken(layout, value, acc, n) ==
  IF n = 0 THEN NoTime
  ELSE Parse(Tail(layout), SubSeq(value, n + 1, Len(value)),
             Field(acc, Head(layout), SubSeq(value, 1, n)))

standardFormats ==
  << <<"2006", "-", "01", "-", "02">>, <<"2006", "/", "01", "/", "02">>,
     <<"01", "-", "02", "-", "2006">>, <<"01", "/", "02", "/", "2006">>,
     <<"02", "-", "01", "-", "2006">>, <<"02", "/", "01", "/", "2006">>,
     <<"Jan", " ", "2", ",", " ", "2006">>, <<"January", " ", "2", ",", " ", "2006">>,
     <<"2", " ", "Jan", " ", "2006">>, <<"2", " ", "January", " ", "2006">> >>

\* A result, or the one of the next attempt when it is none.
orElse(result, next) == IF result.ok THEN result ELSE next

(***************************************************************************)
(* parseFlexibleDate.  Its regular expressions are made of runs of digits, *)
(* of letters and of separators, so a match is read off the maximal runs   *)
(* of the text.                                                            *)
(***************************************************************************)
\* "d" a digit, "a" a letter, "s" a separator (white space, and "-" where
\* the expression has [-\s]), "x" anything else.
Class(c, hyphen) ==
  IF IsDigit(c) THEN "d"
  ELSE IF IsSpace(c) \/ (hyphen /\ c = "-") THEN "s"
  ELSE IF IsLetter(c) THEN "a"
  ELSE "x"

RECURSIVE Runs(_, _, _)
Runs(s, hyphen, acc) ==
  IF Len(s) = 0 THEN acc
  ELSE IF acc # <<>> /\ acc[Len(acc)].c = Class(CharAt(s, 1), hyphen)
    THEN Runs(Tail(s), hyphen, [acc EXCEPT ![Len(acc)].t = @ \o CharAt(s, 1)])
  ELSE Runs(Tail(s), hyphen, Append(acc, [c |-> Class(CharAt(s, 1), hyphen), t |-> CharAt(s, 1)]))

Shape(runs) == [i \in DOMAIN runs |-> runs[i].c]

\* monthMap
monthMap(monthStr) ==
  IF \E i \in 1..12 : longMonthNames[i] = monthStr
    THEN CHOOSE i \in 1..12 : longMonthNames[i] = monthStr
  ELSE IF \E i \in 1..12 : shortMonthNames[i] = monthStr
    THEN CHOOSE i \in 1..12 : shortMonthNames[i] = monthStr
  ELSE IF monthStr = "sept" THEN 9
  ELSE 0

\* if month, ok := monthMap[monthStr]; ok && year > 0 { time.Date(year, month, 1, ...) }
firstOfMonth(year, month) ==
  IF month # 0 /\ year > 0 THEN Time(Date(year, month, 1)) ELSE NoTime

\* ^(\d{4})\s+([a-zA-Z]+)$|^([a-zA-Z]+)\s+(\d{4})$
monthYearPattern(r) ==
  IF Shape(r) = <<"d", "s", "a">> /\ Len(r[1].t) = 4
    THEN firstOfMonth(DecVal(r[1].t, 0), monthMap(ToLower(r[3].t)))
  ELSE IF Shape(r) = <<"a", "s", "d">> /\ Len(r[3].t) = 4
    THEN firstOfMonth(DecVal(r[3].t, 0), monthMap(ToLower(r[1].t)))
  ELSE NoTime

\* ok && year > 0 && day > 0 && day <= 31, then time.Date and t.Day() == day
dayOfMonth(year, month, day) ==
  IF month # 0 /\ year > 0 /\ day > 0 /\ day <= 31
     /\ CivilFromDays(Date(year, month, day)).day = day
    THEN Time(Date(year, month, day))
    ELSE NoTime

\* ^(\d{1,2})[-\s]+([a-zA-Z]+)[-\s]+(\d{4})$
dayMonthYearPattern1(r) ==
  IF Shape(r) = <<"d", "s", "a", "s", "d">> /\ Len(r[1].t) <= 2 /\ Len(r[5].t) = 4
    THEN dayOfMonth(DecVal(r[5].t, 0), monthMap(ToLower(r[3].t)), DecVal(r[1].t, 0))
    ELSE NoTime

\* ^([a-zA-Z]+)[-\s]+(\d{1,2})[-\s]+(\d{4})$
monthDayYearPattern(r) ==
  IF Shape(r) = <<"a", "s", "d", "s", "d">> /\ Len(r[3].t) <= 2 /\ Len(r[5].t) = 4
    THEN dayOfMonth(DecVal(r[5].t, 0), monthMap(ToLower(r[1].t)), DecVal(r[3].t, 0))
    ELSE NoTime

\* ^(\d{4})[-\s]+([a-zA-Z]+)[-\s]+(\d{1,2})$
yearMonthDayPattern(r) ==
  IF Shape(r) = <<"d", "s", "a", "s", "d">> /\ Len(r[1].t) = 4 /\ Len(r[5].t) <= 2
    THEN dayOfMonth(DecVal(r[1].t, 0), monthMap(ToLower(r[3].t)), DecVal(r[5].t, 0))
    ELSE NoTime

\* switch lowerDateStr { case "today": ... "yesterday" ... "tomorrow" }
relativeDay(lowerDateStr, now) ==
  IF lowerDateStr = "today" THEN Time(now)
  ELSE IF lowerDateStr = "yesterday" THEN Time(AddDate(now, -1))
  ELSE IF lowerDateStr = "tomorrow" THEN Time(AddDate(now, 1))
  ELSE NoTime

\* ^(\d+)\s+days?\s+ago$
daysAgoPattern(r, now) ==
  IF Shape(r) = <<"d", "s", "a", "s", "a">> /\ r[3].t \in {"day", "days"} /\ r[5].t = "ago"
    THEN Time(AddDate(now, 0 - DecVal(r[1].t, 0)))
    ELSE NoTime

RECURSIVE standardFormat(_, _)
standardFormat(formats, dateStr) ==
  IF formats = <<>> THEN NoTime
  ELSE orElse(Parse(Head(formats), dateStr, [year |-> 0, month |-> 1, day |-> 1]),
              standardFormat(Tail(formats), dateStr))

\* parseFlexibleDate(dateStr) when time.Now() is on day `now`: [ok, t, s],
\* t the parsed time and s its YYYY-MM-DD form.
flexibleDate(dateStr, now) ==
  orElse(standardFormat(standardFormats, dateStr),
  orElse(monthYearPattern(Runs(dateStr, FALSE, <<>>)),
  orElse(dayMonthYearPattern1(Runs(dateStr, TRUE, <<>>)),
  orElse(monthDayYearPattern(Runs(dateStr, TRUE, <<>>)),
  orElse(yearMonthDayPattern(Runs(dateStr, TRUE, <<>>)),
  orElse(relativeDay(ToLower(dateStr), now),
         daysAgoPattern(Runs(ToLower(dateStr), FALSE, <<>>), now)))))))

parseFlexibleDate(dateStr, now) == flexibleDate(TrimSpace(dateStr), now)


\* buildDateFilters(before, after, on, during): [err, out], out the map of
\* the filters.  `now` is the day of time.Now().
DateErr(e) == [err |-> e, out |-> EmptyMap]
invalidDate(key, dateStr) ==
  DateErr("invalid '" \o key \o "' date: unable to parse date: " \o TrimSpace(dateStr))

\* Variant: before and after are never compared.
buildDateFiltersUnordered(before, after, on, during, now) ==
  IF on # "" \/ during # ""
    THEN IF (on # "" /\ during # "") \/ before # "" \/ after # ""
           THEN DateErr("date filters cannot be combined")
         ELSE IF ~parseFlexibleDate(on \o during, now).ok THEN invalidDate("on", on \o during)
         ELSE [err |-> "",
               out |-> Put(EmptyMap, IF on # "" THEN "on" ELSE "during",
                           parseFlexibleDate(on \o during, now).s)]
  ELSE IF after # "" /\ ~parseFlexibleDate(after, now).ok THEN invalidDate("after", after)
  ELSE IF before # "" /\ ~parseFlexibleDate(before, now).ok THEN invalidDate("before", before)
  ELSE [err |-> "",
        out |-> [k \in (IF after # "" THEN {"after"} ELSE {})
                       \cup (IF before # "" THEN {"before"} ELSE {}) |->
                   parseFlexibleDate(IF k = "after" THEN after ELSE before, now).s]]

buildDateFilters(before, after, on, during, now) ==
  IF on # ""
    THEN IF during # "" \/ before # "" \/ after # ""
           THEN DateErr("'on' cannot be combined with other date filters")
         ELSE IF ~parseFlexibleDate(on, now).ok THEN invalidDate("on", on)
         ELSE [err |-> "", out |-> Put(EmptyMap, "on", parseFlexibleDate(on, now).s)]
  ELSE IF during # ""
    THEN IF before # "" \/ after # ""
           THEN DateErr("'during' cannot be combined with 'before' or 'after'")
         ELSE IF ~parseFlexibleDate(during, now).ok THEN invalidDate("during", during)
         ELSE [err |-> "", out |-> Put(EmptyMap, "during", parseFlexibleDate(during, now).s)]
  ELSE IF after # "" /\ ~parseFlexibleDate(after, now).ok THEN invalidDate("after", after)
  ELSE IF before # "" /\ ~parseFlexibleDate(before, now).ok THEN invalidDate("before", before)
  ELSE IF after # "" /\ before # ""
          /\ parseFlexibleDate(after, now).t > parseFlexibleDate(before, now).t
    THEN DateErr("'after' date is after 'before' date")
  ELSE [err |-> "",
        out |-> [k \in (IF after # "" THEN {"after"} ELSE {})
                       \cup (IF before # "" THEN {"before"} ELSE {}) |->
                   parseFlexibleDate(IF k = "after" THEN after ELSE before, now).s]]

(***************************************************************************)
(* SpecDates: parseFlexibleDate and buildDateFilters applied to date texts *)
(* of every form the parser knows, on two days.                            *)
(***************************************************************************)
\* The days time.Now() is on: one whose yesterday is a 29 February.
Nows == {DaysFromCivil(2024, 3, 1), DaysFromCivil(2026, 11, 3)}

\* Values of the four date filters of a search.
FilterDates ==
  {"", "July 2025", " 2025-07-15", "Dec 2025", "31-February-2025", "yesterday", " "}

\* A date text with what it is made of: kind, day, month (0 for a name that
\* is none, or when there is no month), year.
DateInput(text, kind, d, m, y) == [text |-> text, kind |-> kind, d |-> d, m |-> m, y |-> y]

MonthTexts ==
  {[text |-> "July", m |-> 7], [text |-> "jul", m |-> 7], [text |-> "FEBRUARY", m |-> 2],
   [text |-> "Feb", m |-> 2], [text |-> "Sept", m |-> 9], [text |-> "April", m |-> 4],
   [text |-> "Jully", m |-> 0]}
DayTexts == {"1", "05", "29", "30", "31", "0", "32"}
TwoDigits == {"00", "01", "02", "04", "12", "13", "29", "30", "31"}
YearTexts == {"2024", "2025"}

MonthOnlyInputs ==
  {DateInput(pad \o mo.text \o gap \o y \o pad, "month-only", 1, mo.m, DecVal(y, 0)) :
     mo \in MonthTexts, y \in YearTexts, gap \in {" ", "  "}, pad \in {"", " "}}
  \cup {DateInput(y \o " " \o mo.text, "month-only", 1, mo.m, DecVal(y, 0)) :
          mo \in MonthTexts, y \in YearTexts}

NamedInputs ==
  UNION {{DateInput(d \o sep \o mo.text \o sep \o y, "named", DecVal(d, 0), mo.m, DecVal(y, 0)),
          DateInput(mo.text \o sep \o d \o sep \o y, "named", DecVal(d, 0), mo.m, DecVal(y, 0)),
          DateInput(y \o sep \o mo.text \o sep \o d, "named", DecVal(d, 0), mo.m, DecVal(y, 0)),
          DateInput(mo.text \o " " \o d \o ", " \o y, "named", DecVal(d, 0), mo.m, DecVal(y, 0))} :
           d \in DayTexts, mo \in MonthTexts, y \in YearTexts, sep \in {" ", "-"}}

\* Numbers only: year first, or year last, where either number can be the month.
NumericInputs ==
  UNION {{DateInput(y \o sep \o a \o sep \o b, "iso", DecVal(b, 0), DecVal(a, 0), DecVal(y, 0)),
          DateInput(a \o sep \o b \o sep \o y, "numeric", DecVal(b, 0), DecVal(a, 0), DecVal(y, 0))} :
           a \in TwoDigits, b \in TwoDigits, y \in YearTexts, sep \in {"-", "/"}}

RelativeInputs ==
  {DateInput(w, "relative", 0, 0, 0) :
     w \in {"today", "Yesterday", "TOMORROW", "1 day ago", "5 days ago", "800000 days ago",
            "", "next week"}}

DateInputs == MonthOnlyInputs \cup NamedInputs \cup NumericInputs \cup RelativeInputs

InitDates ==
  /\ InitLoaded(LoadedUsers, LoadedChannels)
  /\ toolConfig = "true"
  /\ transport = "stdio"
  /\ apiKey = "" /\ sseApiKey = ""
  /\ hres = NoCall
  /\ \E now \in Nows : pg = [state |-> "start", now |-> now]

\* parseFlexibleDate(input).
ParseDate ==
  /\ pg.state = "start"
  /\ \E input \in DateInputs :
       pg' = [state |-> "parsed", now |-> pg.now, input |-> input,
              first |-> parseFlexibleDate(input.text, pg.now),
              date |-> parseFlexibleDate(input.text, pg.now)]
  /\ UNCHANGED <<provVars, diskVars, envVars, taskVars, hres>>

\* parseFlexibleDate of the YYYY-MM-DD text a first call returned.
ParseAgain ==
  /\ pg.state = "parsed" /\ pg.date.ok
  /\ pg' = [pg EXCEPT !.state = "parsed again",
                      !.date = parseFlexibleDate(pg.first.s, pg.now)]
  /\ UNCHANGED <<provVars, diskVars, envVars, taskVars, hres>>

BuildDateFilters ==
  /\ pg.state = "start"
  /\ \E before \in FilterDates, after \in FilterDates, on \in FilterDates, during \in FilterDates :
       pg' = [state |-> "built", now |-> pg.now,
              args |-> [before |-> before, after |-> after, on |-> on, during |-> during],
              filters |-> buildDateFilters(before, after, on, during, pg.now)]
  /\ UNCHANGED <<provVars, diskVars, envVars, taskVars, hres>>

NextDates == ParseDate \/ ParseAgain \/ BuildDateFilters

SpecDates == InitDates /\ [][NextDates]_vars

\* The filters given, and whether every one of them is a date.
Given(args) == {k \in {"before", "after", "on", "during"} : args[k] # ""}
AllParse(args, now) == \A k \in Given(args) : parseFlexibleDate(args[k], now).ok

IsDate(y, m, d) == m \in 1..12 /\ d >= 1 /\ d <= daysIn(m, y)

\* C20: an input whose day is not in its month, or whose month is no month,
\* is an error (a text of two numbers and a year, when neither number can be
\* the month of the other as day); a month and a year, in any letter case
\* and with blanks around, give the first of the month; and the YYYY-MM-DD
\* text of a parsed date parses to the same time and the same text.
C20_DayValidityAndRoundTrip ==
  /\ (pg.state = "parsed" /\ pg.input.kind \in {"named", "iso"}
      /\ ~IsDate(pg.input.y, pg.input.m, pg.input.d)) => ~pg.date.ok
  /\ (pg.state = "parsed" /\ pg.input.kind = "numeric"
      /\ ~IsDate(pg.input.y, pg.input.m, pg.input.d)
      /\ ~IsDate(pg.input.y, pg.input.d, pg.input.m)) => ~pg.date.ok
  /\ (pg.state = "parsed" /\ pg.input.kind = "month-only") =>
       IF pg.input.m = 0 THEN ~pg.date.ok
       ELSE pg.date = [ok |-> TRUE, t |-> DaysFromCivil(pg.input.y, pg.input.m, 1),
                       s |-> Itoa(pg.input.y) \o "-" \o Pad(Itoa(pg.input.m), 2) \o "-01"]
  /\ pg.state = "parsed again" => pg.date = pg.first

\* The parts of C20 on day validity, on invalid months and on month-only
\* inputs, and the round trip for every date of the years 0000 to 9999.
C20_WithinFourDigitYears ==
  /\ (pg.state = "parsed" /\ pg.input.kind \in {"named", "iso"}
      /\ ~IsDate(pg.input.y, pg.input.m, pg.input.d)) => ~pg.date.ok
  /\ (pg.state = "parsed" /\ pg.input.kind = "numeric"
      /\ ~IsDate(pg.input.y, pg.input.m, pg.input.d)
      /\ ~IsDate(pg.input.y, pg.input.d, pg.input.m)) => ~pg.date.ok
  /\ (pg.state = "parsed" /\ pg.input.kind = "month-only") =>
       IF pg.input.m = 0 THEN ~pg.date.ok
       ELSE pg.date = [ok |-> TRUE, t |-> DaysFromCivil(pg.input.y, pg.input.m, 1),
                       s |-> Itoa(pg.input.y) \o "-" \o Pad(Itoa(pg.input.m), 2) \o "-01"]
  /\ (pg.state = "parsed again" /\ CivilFromDays(pg.first.t).year \in 0..9999) =>
       pg.date = pg.first

(***************************************************************************)
(* The search DSL: splitQuery, addFilter, buildQuery, and the part of      *)
(* parseParamsToolSearch that composes the query sent to search.messages.  *)
(***************************************************************************)
\* The keys of validFilterKeys, in the order in which buildQuery emits them.
filterKeyOrder == <<"is", "in", "from", "with", "before", "after", "on", "during">>

validFilterKeys == Range(filterKeyOrder)

isFilterKey(key) == ToLower(key) \in validFilterKeys

\* strings.Fields(s): the maximal runs of non-space characters.
RECURSIVE FieldsFrom(_, _)
FieldsFrom(s, cur) ==
  IF Len(s) = 0 THEN (IF cur = "" THEN <<>> ELSE <<cur>>)
  ELSE IF IsSpace(CharAt(s, 1))
    THEN (IF cur = "" THEN <<>> ELSE <<cur>>) \o FieldsFrom(Tail(s), "")
  ELSE FieldsFrom(Tail(s), cur \o CharAt(s, 1))

Fields(s) == FieldsFrom(s, "")

\* strings.SplitN(s, sep, 2): cut at the first separator only.
SplitN2(parts, sep) ==
  IF Len(parts) = 1 THEN parts ELSE <<parts[1], Join(Tail(parts), sep)>>

\* A fresh map[string][]string: a key it does not hold reads as the empty list.
NoFilters == [key \in validFilterKeys |-> <<>>]

\* The loop of splitQuery over the tokens, given each token's parts.
RECURSIVE splitTokens(_, _, _)

\* One token: a filter when it has a colon and a valid key before it (in any
\* case, stored lower-cased), free text otherwise.
splitToken(tok, parts, rest, freeText, filters) ==
  IF Len(parts) = 2 /\ isFilterKey(parts[1])
    THEN splitTokens(rest, freeText,
                     [filters EXCEPT ![ToLower(parts[1])] = Append(@, parts[2])])
  ELSE splitTokens(rest, Append(freeText, tok), filters)

splitTokens(toks, freeText, filters) ==
  IF Len(toks) = 0 THEN [freeText |-> freeText, filters |-> filters]
  ELSE splitToken(Head(toks), SplitN2(Split(Head(toks), ":"), ":"), Tail(toks),
                  freeText, filters)

\* splitQuery keeps every value of a key:value token, in order, repeated or not.
splitQuery(q) == splitTokens(Fields(q), <<>>, NoFilters)

addFilter(filters, key, val) ==
  IF \E i \in DOMAIN filters[key] : filters[key][i] = val THEN filters
  ELSE [filters EXCEPT ![key] = Append(@, val)]

RECURSIVE filterTokens(_, _)
filterTokens(keys, filters) ==
  IF Len(keys) = 0 THEN <<>>
  ELSE [i \in DOMAIN filters[Head(keys)] |-> Head(keys) \o ":" \o filters[Head(keys)][i]]
       \o filterTokens(Tail(keys), filters)

buildQuery(freeText, filters) ==
  Join(freeText \o filterTokens(filterKeyOrder, filters), " ")

\* A structured filter that the request does not carry.
NotGiven == [err |-> "", val |-> "", given |-> FALSE]

\* A structured filter after paramFormatChannel or paramFormatUser.
Formatted(f) == [err |-> f.err, val |-> f.val, given |-> TRUE]

addGiven(filters, key, f) == IF f.given THEN addFilter(filters, key, f.val) ELSE filters

\* for key, val := range dateMap { addFilter(filters, key, val) }: the keys
\* are distinct, so the order of the range does not change the result.
RECURSIVE addDates(_, _, _)
addDates(filters, keys, dateMap) ==
  IF Len(keys) = 0 THEN filters
  ELSE addDates(IF Head(keys) \in DOMAIN dateMap
                  THEN addFilter(filters, Head(keys), dateMap[Head(keys)])
                ELSE filters,
                Tail(keys), dateMap)

SearchRefused(e) == [err |-> e, query |-> "", freeText |-> <<>>, filters |-> NoFilters]

Composed(freeText, filters) ==
  [err |-> "", query |-> buildQuery(freeText, filters), freeText |-> freeText,
   filters |-> filters]

\* parseParamsToolSearch from the split of the raw query on: is:thread, in:,
\* with:, from:, the date filters, then buildQuery.
composeSearch(split, threadsOnly, inF, withF, fromF, dates) ==
  IF inF.err # "" THEN SearchRefused(inF.err)
  ELSE IF withF.err # "" THEN SearchRefused(withF.err)
  ELSE IF fromF.err # "" THEN SearchRefused(fromF.err)
  ELSE IF dates.err # "" THEN SearchRefused(dates.err)
  ELSE Composed(split.freeText,
         addDates(
           addGiven(
             addGiven(
               addGiven(IF threadsOnly THEN addFilter(split.filters, "is", "thread")
                        ELSE split.filters,
                        "in", inF),
               "with", withF),
             "from", fromF),
           <<"before", "after", "on", "during">>, dates.out))

\* parseParamsToolSearch up to the final query, for a request with a raw
\* query, filter_threads_only and date filters as well; limit and cursor
\* play no part in the query.
parseParamsToolSearchQuery(req, now) ==
  composeSearch(
    splitQuery(TrimSpace(req.search_query)),
    req.filter_threads_only,
    IF req.filter_in_channel # "" THEN Formatted(paramFormatChannel(req.filter_in_channel))
    ELSE IF req.filter_in_im_or_mpim # ""
      THEN Formatted(paramFormatUser(req.filter_in_im_or_mpim))
    ELSE NotGiven,
    IF req.filter_users_with # "" THEN Formatted(paramFormatUser(req.filter_users_with))
    ELSE NotGiven,
    IF req.filter_users_from # "" THEN Formatted(paramFormatUser(req.filter_users_from))
    ELSE NotGiven,
    buildDateFilters(req.filter_date_before, req.filter_date_after, req.filter_date_on,
                     req.filter_date_during, now))

(***************************************************************************)
(* SpecSearch: a client composes one search and reads its query back.      *)
(***************************************************************************)
RawQueries ==
  {"", "deploy failed", "  error   in:#g ", "in:#g in:#g", "IN:#g in:#s", "in:#s",
   "on:2025-07-15", "during:july plan", "before:2025-08-01 after:2025-07-01",
   "is:thread is:thread done", "from:@a http://x", "with: a:b", "in:a:b port:80",
   ":x on: ", "On:2025-07-15 DURING:2025"}

SearchDates == {"", "2025-07-15", "Aug 2025"}

SearchQueryReq(raw, threadsOnly, inChannel, from, before, after, on, during) ==
  [search_query |-> raw, filter_threads_only |-> threadsOnly,
   filter_in_channel |-> inChannel, filter_in_im_or_mpim |-> "",
   filter_users_with |-> "", filter_users_from |-> from,
   filter_date_before |-> before, filter_date_after |-> after,
   filter_date_on |-> on, filter_date_during |-> during]

SearchQueryReqs ==
  {SearchQueryReq(raw, threadsOnly, inChannel, from, before, after, on, during) :
     raw \in RawQueries, threadsOnly \in BOOLEAN, inChannel \in {"", "#g", "#zz"},
     from \in {"", "@a", "<@U1 x>"}, before \in SearchDates, after \in SearchDates,
     on \in {"", "2025-07-15"}, during \in {"", "Aug 2025"}}

SearchNow == DaysFromCivil(2026, 11, 3)

InitSearch ==
  /\ InitLoaded(LoadedUsers, LoadedChannels)
  /\ toolConfig = "true"
  /\ transport = "stdio"
  /\ apiKey = "" /\ sseApiKey = ""
  /\ hres = NoCall
  /\ pg = [state |-> "start"]

\* parseParamsToolSearch(req) up to buildQuery.
ParseSearch ==
  /\ pg.state = "start"
  /\ \E req \in SearchQueryReqs :
       pg' = [state |-> "parsed", req |-> req,
              params |-> parseParamsToolSearchQuery(req, SearchNow)]
  /\ UNCHANGED <<provVars, diskVars, envVars, taskVars, hres>>

\* splitQuery of the query that was composed, and buildQuery of that split.
SplitComposed ==
  /\ pg.state = "parsed" /\ pg.params.err = ""
  /\ pg' = [state |-> "split", req |-> pg.req, params |-> pg.params,
            again |-> splitQuery(pg.params.query),
            recomposed |-> buildQuery(splitQuery(pg.params.query).freeText,
                                      splitQuery(pg.params.query).filters)]
  /\ UNCHANGED <<provVars, diskVars, envVars, taskVars, hres>>

NextSearch == ParseSearch \/ SplitComposed

SpecSearch == InitSearch /\ [][NextSearch]_vars

\* The search was accepted: its query goes to search.messages.
SearchAccepted == pg.state \in {"parsed", "split"} /\ pg.params.err = ""

\* The query holds a token of this key.
HasToken(query, key) ==
  \E i \in DOMAIN Fields(query) : HasPrefix(Fields(query)[i], key \o ":")

Exclusive(query) ==
  /\ ~(HasToken(query, "on")
       /\ (HasToken(query, "during") \/ HasToken(query, "before") \/ HasToken(query, "after")))
  /\ ~(HasToken(query, "during")
       /\ (HasToken(query, "before") \/ HasToken(query, "after")))

\* C14: the query of every accepted search has no on: token next to a
\* during:, before: or after: token and no during: token next to a before:
\* or after: token, wherever its tokens came from.
C14_QueryRespectsExclusions == SearchAccepted => Exclusive(pg.params.query)

\* The same for searches whose raw query holds no date token.
C14_StructuredDatesOnly ==
  (SearchAccepted /\ \A key \in {"on", "during", "before", "after"} :
                       ~HasToken(ToLower(pg.req.search_query), key))
    => Exclusive(pg.params.query)

\* A token of the form key:value for a key of the DSL, in any case.
IsFilterToken(tok) ==
  \E i \in DOMAIN filterKeyOrder : HasPrefix(ToLower(tok), filterKeyOrder[i] \o ":")

IsFreeToken(tok) == ~IsFilterToken(tok)

KeyIndex(tok) == CHOOSE i \in DOMAIN filterKeyOrder : HasPrefix(tok, filterKeyOrder[i] \o ":")

\* toks is the free tokens followed by key:value tokens in the key order.
FreeThenFilters(toks, free) ==
  /\ Len(toks) >= Len(free)
  /\ SubSeq(toks, 1, Len(free)) = free
  /\ \A i \in (Len(free) + 1)..Len(toks) :
       \E k \in DOMAIN filterKeyOrder : HasPrefix(toks[i], filterKeyOrder[k] \o ":")
  /\ \A i, j \in (Len(free) + 1)..Len(toks) : i < j => KeyIndex(toks[i]) <= KeyIndex(toks[j])

NoTokenTwice(toks, free) ==
  \A i, j \in (Len(free) + 1)..Len(toks) : i # j => toks[i] # toks[j]

\* C15: the composed query is the free-text tokens of the raw query in their
\* order, then key:value tokens in the order is, in, from, with, before,
\* after, on, during, and no key:value token is in it twice.
C15_OrderedWithoutDuplicates ==
  SearchAccepted =>
    /\ FreeThenFilters(Fields(pg.params.query),
                       SelectSeq(Fields(pg.req.search_query), IsFreeToken))
    /\ NoTokenTwice(Fields(pg.params.query),
                    SelectSeq(Fields(pg.req.search_query), IsFreeToken))

\* The order alone, for searches whose structured values hold no space.
C15_OrderOnly ==
  (SearchAccepted /\ pg.req.filter_users_from # "<@U1 x>") =>
    FreeThenFilters(Fields(pg.params.query),
                    SelectSeq(Fields(pg.req.search_query), IsFreeToken))

\* C16: splitting a composed query gives back the free text and the values
\* of every key that were composed, and composing that split gives the
\* query again.
C16_SplitInvertsCompose ==
  pg.state = "split" =>
    /\ pg.again.freeText = pg.params.freeText
    /\ pg.again.filters = pg.params.filters
    /\ pg.recomposed = pg.params.query

\* The same for searches whose structured values hold no space.
C16_WithoutSpacesInValues ==
  (pg.state = "split" /\ pg.req.filter_users_from # "<@U1 x>") =>
    /\ pg.again.freeText = pg.params.freeText
    /\ pg.again.filters = pg.params.filters
    /\ pg.recomposed = pg.params.query

(***************************************************************************)
(* The duration limit: limitByDays with its clock, and the choice between  *)
(* limitByDays and limitByNumeric in parseParamsToolConversations.         *)
(***************************************************************************)
\* now.Location(): the offset from UTC in seconds, and the local day, if
\* any, at whose end the offset has changed by `extra` seconds (a day of
\* 23 or 25 hours).
Location(base, shiftDay, extra) == [base |-> base, shiftDay |-> shiftDay, extra |-> extra]

\* time.Date(y, m, d, 0, 0, 0, 0, loc).Unix() for the local day number day.
MidnightUnix(day, loc) ==
  day * 86400 - (IF day > loc.shiftDay THEN loc.base - loc.extra ELSE loc.base)

\* time.Now(): the local day and the seconds gone since its midnight.
Now(day, elapsed) == [day |-> day, elapsed |-> elapsed]

Unix(now, loc) == MidnightUnix(now.day, loc) + now.elapsed

\* fmt.Sprintf("%d.000000", t)
Stamp(t) == Itoa(t) \o ".000000"

NoWindow(err, limit) == [err |-> err, limit |-> limit, oldest |-> "", latest |-> ""]

\* limitByDays with its clock: the limit of 100 and the stamps of
\* startOfToday.AddDate(0, 0, -days+1) and of now.
limitByDaysWindow(limit, now, loc) ==
  IF limitByDays(limit).err # "" THEN NoWindow(limitByDays(limit).err, 0)
  ELSE [err |-> "", limit |-> 100,
        oldest |-> Stamp(MidnightUnix(now.day - limitByDays(limit).days + 1, loc)),
        latest |-> Stamp(Unix(now, loc))]

\* parseParamsToolConversations: limit, oldest and latest of the request.
conversationLimit(limit, cursor, now, loc) ==
  IF HasSuffix(limit, "d") THEN limitByDaysWindow(limit, now, loc)
  ELSE IF cursor = "" THEN NoWindow(limitByNumeric(limit).err, limitByNumeric(limit).limit)
  ELSE NoWindow("", 0)

(***************************************************************************)
(* SpecLimit: requests with a limit, at several times of several days.     *)
(***************************************************************************)
MaxDuration == 3

Durations == {[n |-> n, unit |-> unit] : n \in 1..MaxDuration, unit \in {"d", "w", "m"}}

DurationText(dur) == Itoa(dur.n) \o dur.unit

\* The limits of TestUnitLimitByExpression_Invalid, and other texts.
InvalidDurations == {"d", "0d", "-1d", "1x", "1", "01"}

LimitTexts ==
  {DurationText(dur) : dur \in Durations} \cup InvalidDurations
    \cup {"", "50", "+2d", "02d", "1dd", "d1", "abc", " 1d"}

LimitDays == {DaysFromCivil(2025, 7, 10), DaysFromCivil(2026, 3, 31)}

Locations ==
  {Location(0, 0, 0), Location(7200, 0, 0), Location(0 - 18000, 0, 0)}
    \cup {Location(7200, day - back, extra) :
            day \in LimitDays, back \in 0..1, extra \in {3600, 0 - 3600}}

DayLength(day, loc) == MidnightUnix(day + 1, loc) - MidnightUnix(day, loc)

InitLimit ==
  /\ InitLoaded(LoadedUsers, LoadedChannels)
  /\ toolConfig = "true"
  /\ transport = "stdio"
  /\ apiKey = "" /\ sseApiKey = ""
  /\ hres = NoCall
  /\ \E day \in LimitDays, loc \in Locations :
       \E elapsed \in {0, 50400, DayLength(day, loc) - 1} :
         pg = [state |-> "start", now |-> Now(day, elapsed), loc |-> loc]

\* The limit section of parseParamsToolConversations for one request.
ParseLimit ==
  /\ pg.state = "start"
  /\ \E limit \in LimitTexts, cursor \in {"", "bmV4dA=="} :
       pg' = [state |-> "parsed", now |-> pg.now, loc |-> pg.loc,
              limit |-> limit, cursor |-> cursor,
              duration |-> limitByDaysWindow(limit, pg.now, pg.loc),
              params |-> conversationLimit(limit, cursor, pg.now, pg.loc)]
  /\ UNCHANGED <<provVars, diskVars, envVars, taskVars, hres>>

NextLimit == ParseLimit

SpecLimit == InitLimit /\ [][NextLimit]_vars

\* The seconds of a stamp, read as TestUnitLimitByExpression_Valid reads it.
Seconds(stamp) == Atoi(TrimSuffix(stamp, ".000000")).n

\* AddDate(0, -n, 0) of a civil date at midnight, as a day number.
MonthsBack(c, n) ==
  Date(c.year + (c.month - n - 1) \div 12, ((c.month - n - 1) % 12) + 1, c.day)

\* The local day of today minus the duration plus one day.
OldestDay(day, dur) ==
  IF dur.unit = "d" THEN day - dur.n + 1
  ELSE IF dur.unit = "w" THEN day - 7 * dur.n + 1
  ELSE MonthsBack(CivilFromDays(day), dur.n) + 1

SpanDays(dur) == IF dur.unit = "w" THEN 7 * dur.n ELSE dur.n

Window(params, dur, now, loc) ==
  /\ params.err = ""
  /\ params.limit = 100
  /\ Seconds(params.latest) = Unix(now, loc)
  /\ Seconds(params.oldest) = MidnightUnix(OldestDay(now.day, dur), loc)

SpanWithin(params, dur) ==
  /\ Seconds(params.latest) - Seconds(params.oldest) >= (SpanDays(dur) - 1) * 86400
  /\ Seconds(params.latest) - Seconds(params.oldest) < SpanDays(dur) * 86400

\* C17: a limit of N and d, w or m with N positive gives the limit 100,
\* latest = now and oldest = the local midnight of today minus N units plus
\* one day, with latest after oldest and, for days and weeks, a span of more
\* than N - 1 (7N - 1) and less than N (7N) days; the duration parser refuses
\* "d", "0d", "-1d", "1x", "1" and "01".
C17_DurationWindow ==
  pg.state = "parsed" =>
    /\ \A dur \in Durations :
         pg.limit = DurationText(dur) =>
           /\ Window(pg.params, dur, pg.now, pg.loc)
           /\ Seconds(pg.params.latest) > Seconds(pg.params.oldest)
           /\ dur.unit \in {"d", "w"} => SpanWithin(pg.params, dur)
    /\ pg.limit \in InvalidDurations => pg.duration.err # ""

\* What holds of it: days only, in a location whose offset does not change,
\* after the first second of the day; and the texts that end in "d" without
\* a positive number before it are refused.
C17_DaysInSteadyLocation ==
  pg.state = "parsed" =>
    /\ \A dur \in Durations :
         (pg.limit = DurationText(dur) /\ dur.unit = "d") =>
           /\ Window(pg.params, dur, pg.now, pg.loc)
           /\ pg.now.elapsed > 0 => Seconds(pg.params.latest) > Seconds(pg.params.oldest)
           /\ pg.loc.extra = 0 => SpanWithin(pg.params, dur)
    /\ pg.limit \in {"d", "0d", "-1d"} => pg.params.err # ""
    /\ (pg.limit = "1x" /\ pg.cursor = "") => pg.params.err # ""

(***************************************************************************)
(* IsUnfurlingEnabled: the allowed domains, the URLs and the bare domains  *)
(* of a text, by the two regular expressions, url.Parse and the public     *)
(* suffix list.                                                            *)
(***************************************************************************)
\* The index of the first (last) c in s, 0 when there is none.
RECURSIVE IndexFrom(_, _, _)
IndexFrom(s, c, i) ==
  IF i > Len(s) THEN 0 ELSE IF CharAt(s, i) = c THEN i ELSE IndexFrom(s, c, i + 1)

Index(s, c) == IndexFrom(s, c, 1)

RECURSIVE LastIndexFrom(_, _, _)
LastIndexFrom(s, c, i) ==
  IF i = 0 THEN 0 ELSE IF CharAt(s, i) = c THEN i ELSE LastIndexFrom(s, c, i - 1)

LastIndex(s, c) == LastIndexFrom(s, c, Len(s))

\* The part of s before (after) position i; all (none) of it when i = 0.
Before(s, i) == IF i = 0 THEN s ELSE SubSeq(s, 1, i - 1)
After(s, i) == IF i = 0 THEN "" ELSE SubSeq(s, i + 1, Len(s))

\* The domains of the option, trimmed and lower-cased, empty items left out.
allowedDomains(opt) ==
  {ToLower(TrimSpace(Split(opt, ",")[i])) : i \in DOMAIN Split(opt, ",")} \ {""}

\* The length of the longest run of characters of a class at the head of s.
RECURSIVE RunLen(_, _, _)
RunLen(s, InClass(_), n) ==
  IF n < Len(s) /\ InClass(CharAt(s, n + 1)) THEN RunLen(s, InClass, n + 1) ELSE n

NotSpace(c) == ~IsSpace(c)

\* urlRe, https?://[^\s]+ : the length of its match at the head of s, or 0.
urlSchemeLen(s) ==
  IF HasPrefix(s, "https://") THEN 8 ELSE IF HasPrefix(s, "http://") THEN 7 ELSE 0

urlRe(s) ==
  IF urlSchemeLen(s) = 0 \/ RunLen(After(s, urlSchemeLen(s)), NotSpace, 0) = 0 THEN 0
  ELSE urlSchemeLen(s) + RunLen(After(s, urlSchemeLen(s)), NotSpace, 0)

\* urlRe.FindAllString(text, -1) and urlRe.ReplaceAllString(text, " "): from
\* the first place of s at which urlRe matches, n characters long.
RECURSIVE urlScan(_, _, _)
urlScanAt(s, urls, out, i, n) ==
  urlScan(SubSeq(s, i + n, Len(s)), Append(urls, SubSeq(s, i, i + n - 1)),
          out \o SubSeq(s, 1, i - 1) \o " ")

urlScanFirst(s, urls, out, i) == urlScanAt(s, urls, out, i, urlRe(SubSeq(s, i, Len(s))))

urlPlaces(s) == {i \in 1..Len(s) : urlRe(SubSeq(s, i, Len(s))) > 0}

urlScan(s, urls, out) ==
  IF urlPlaces(s) = {} THEN [urls |-> urls, text |-> out \o s]
  ELSE urlScanFirst(s, urls, out, CHOOSE i \in urlPlaces(s) : \A j \in urlPlaces(s) : i <= j)

IsHex(c) == IsDigit(c) \/ c \in {"a", "b", "c", "d", "e", "f", "A", "B", "C", "D", "E", "F"}

\* unescape: every % is followed by two hexadecimal digits.
RECURSIVE validEscapes(_)
validEscapes(s) ==
  IF Len(s) = 0 THEN TRUE
  ELSE IF CharAt(s, 1) = "%"
    THEN Len(s) >= 3 /\ IsHex(CharAt(s, 2)) /\ IsHex(CharAt(s, 3)) /\ validEscapes(After(s, 3))
  ELSE validEscapes(Tail(s))

\* validOptionalPort: nothing, or a colon and digits.
validOptionalPort(port) == port = "" \/ (CharAt(port, 1) = ":" /\ AllDigits(Tail(port)))

\* parseAuthority: the host with its port, after the user information.
hostOf(authority) ==
  IF LastIndex(authority, "@") = 0 THEN authority
  ELSE After(authority, LastIndex(authority, "@"))

validHost(host) ==
  LastIndex(host, ":") = 0 \/ validOptionalPort(SubSeq(host, LastIndex(host, ":"), Len(host)))

\* url.Parse of an http(s) URL from its parts: u.Host, or an error.
urlOfParts(authority, path, fragment) ==
  IF ~validHost(hostOf(authority)) \/ ~validEscapes(path) \/ ~validEscapes(fragment)
    THEN [err |-> TRUE, Host |-> ""]
  ELSE [err |-> FALSE, Host |-> hostOf(authority)]

\* The URL without fragment and query, after the scheme and the two slashes.
urlOfRest(rest, fragment) ==
  urlOfParts(Before(rest, Index(rest, "/")),
             IF Index(rest, "/") = 0 THEN "" ELSE SubSeq(rest, Index(rest, "/"), Len(rest)),
             fragment)

urlParse(rawURL) ==
  urlOfRest(After(Before(Before(rawURL, Index(rawURL, "#")),
                         Index(Before(rawURL, Index(rawURL, "#")), "?")),
                  urlSchemeLen(rawURL)),
            After(rawURL, Index(rawURL, "#")))

\* The host as it is looked up: lower case, cut at the first colon, without
\* a "www." in front.
lookedUpHost(host) ==
  TrimPrefix(Before(ToLower(host), Index(ToLower(host), ":")), "www.")

IsAlnum(c) == IsLetter(c) \/ IsDigit(c)
IsWord(c) == IsAlnum(c) \/ c = "_"
IsLabelChar(c) == IsAlnum(c) \/ c = "-"

\* One label and its dot at the head of s: the length, or 0.
labelDot(s, n) ==
  IF n > 0 /\ n < Len(s) /\ IsAlnum(CharAt(s, 1)) /\ IsAlnum(CharAt(s, n))
     /\ CharAt(s, n + 1) = "."
    THEN n + 1 ELSE 0

\* [A-Za-z]{2,}\b at the head of s: the length, or 0.
topLevel(s, n) ==
  IF n >= 2 /\ (n = Len(s) \/ ~IsWord(CharAt(s, n + 1))) THEN n ELSE 0

\* The labels after the first one, as many as lead to a match, then the
\* letters at the end: the length, or 0.
RECURSIVE domainTail(_)
moreLabels(s, g) ==
  IF g > 0 /\ domainTail(After(s, g)) > 0 THEN g + domainTail(After(s, g))
  ELSE topLevel(s, RunLen(s, IsLetter, 0))

domainTail(s) == moreLabels(s, labelDot(s, RunLen(s, IsLabelChar, 0)))

firstLabel(s, g) == IF g > 0 /\ domainTail(After(s, g)) > 0 THEN g + domainTail(After(s, g)) ELSE 0

\* domRe without its first \b: the length of its match at the head of s.
domRe(s) == firstLabel(s, labelDot(s, RunLen(s, IsLabelChar, 0)))

\* domRe.FindAllString(text, -1), prev being the character before s: from
\* the first place of s after a non-word character at which domRe matches,
\* n characters long.
RECURSIVE domScan(_, _, _)
domScanAt(s, doms, i, n) ==
  domScan(SubSeq(s, i + n, Len(s)), CharAt(s, i + n - 1), Append(doms, SubSeq(s, i, i + n - 1)))

domScanFirst(s, doms, i) == domScanAt(s, doms, i, domRe(SubSeq(s, i, Len(s))))

domPlaces(s, prev) ==
  {i \in 1..Len(s) : /\ ~IsWord(IF i = 1 THEN prev ELSE CharAt(s, i - 1))
                      /\ domRe(SubSeq(s, i, Len(s))) > 0}

domScan(s, prev, doms) ==
  IF domPlaces(s, prev) = {} THEN doms
  ELSE domScanFirst(s, doms,
                    CHOOSE i \in domPlaces(s, prev) : \A j \in domPlaces(s, prev) : i <= j)

\* A part of the public suffix list: rules of its ICANN section and of its
\* private section.
icannSuffixes == {"com", "io", "org", "net", "uk", "co.uk"}
privateSuffixes == {"github.io", "blogspot.com"}

UnderSuffix(d, rule) == d = rule \/ HasSuffix(d, "." \o rule)

\* publicsuffix.PublicSuffix(d): whether the longest rule over d is one of
\* the ICANN section; no rule at all gives FALSE.
icann(d) ==
  /\ \E rule \in icannSuffixes : UnderSuffix(d, rule)
  /\ \A p \in privateSuffixes :
       UnderSuffix(d, p) =>
         \E rule \in icannSuffixes : UnderSuffix(d, rule) /\ Len(rule) > Len(p)

hostsAllowed(urls, allowed) ==
  \A i \in DOMAIN urls :
    \/ urlParse(urls[i]).err
    \/ urlParse(urls[i]).Host = ""
    \/ lookedUpHost(urlParse(urls[i]).Host) \in allowed

domainsAllowed(doms, allowed) ==
  \A i \in DOMAIN doms : icann(ToLower(doms[i])) => ToLower(doms[i]) \in allowed

IsUnfurlingEnabled(text, opt) ==
  IF opt \in {"", "no", "false", "0"} THEN FALSE
  ELSE IF opt \in {"yes", "true", "1"} THEN TRUE
  ELSE /\ hostsAllowed(urlScan(text, <<>>, "").urls, allowedDomains(opt))
       /\ domainsAllowed(domScan(urlScan(text, <<>>, "").text, "", <<>>), allowedDomains(opt))

(***************************************************************************)
(* SpecUnfurl: IsUnfurlingEnabled on texts made of words, URLs and bare    *)
(* domains, under several values of the option.                            *)
(***************************************************************************)
MaxPieces == 2

\* A URL as it stands in a text, with the host it names (lower case, no
\* port, no leading "www.").
UrlPiece(text, host) == [kind |-> "url", text |-> text, host |-> host]

\* A bare domain as it stands in a text, with the domain in lower case and
\* whether its public suffix is one of the ICANN section.
BarePiece(text, domain, listed) ==
  [kind |-> "bare", text |-> text, domain |-> domain, icann |-> listed]

WordPiece(text) == [kind |-> "word", text |-> text]

WellFormedUrls ==
  {UrlPiece("http://example.com/page", "example.com"),
   UrlPiece("https://www.example.com", "example.com"),
   UrlPiece("http://WWW.Example.COM:8080/a%20b?q=%zz#c", "example.com"),
   UrlPiece("https://sub.example.com/x", "sub.example.com"),
   UrlPiece("http://user@foo.io/", "foo.io"),
   UrlPiece("http://example.com@bad.com/", "bad.com"),
   UrlPiece("http://bad.com", "bad.com")}

\* URLs with a host that url.Parse refuses as a whole.
MalformedUrls ==
  {UrlPiece("http://bad.com/%zz", "bad.com"),
   UrlPiece("https://bad.com/a#%", "bad.com"),
   UrlPiece("http://bad.com:x/", "bad.com")}

BarePieces ==
  {BarePiece("example.com", "example.com", TRUE),
   BarePiece("Foo.IO", "foo.io", TRUE),
   BarePiece("example.com:8080", "example.com", TRUE),
   BarePiece("sub.example.com", "sub.example.com", TRUE),
   BarePiece("bad.com", "bad.com", TRUE),
   BarePiece("bar.org.", "bar.org", TRUE),
   BarePiece("foo.invalidtld", "foo.invalidtld", FALSE),
   BarePiece("x.github.io", "x.github.io", FALSE)}

WordPieces == {WordPiece("Visit"), WordPiece("info."), WordPiece("v1.2"), WordPiece("-")}

Pieces == WellFormedUrls \cup MalformedUrls \cup BarePieces \cup WordPieces

PieceTexts(pieces) == [i \in DOMAIN pieces |-> pieces[i].text]

\* An option with the domains it lists.
UnfurlOption(opt, domains) == [opt |-> opt, domains |-> domains]

UnfurlOff == {"", "no", "false", "0"}
UnfurlOn == {"yes", "true", "1"}

UnfurlOptions ==
  {UnfurlOption(opt, {}) : opt \in UnfurlOff \cup UnfurlOn}
    \cup {UnfurlOption("example.com,foo.io", {"example.com", "foo.io"}),
          UnfurlOption(" Example.com , FOO.io,,", {"example.com", "foo.io"}),
          UnfurlOption("sub.example.com,bar.org", {"sub.example.com", "bar.org"}),
          UnfurlOption("www.example.com", {"www.example.com"}),
          UnfurlOption("YES", {"yes"})}

InitUnfurl ==
  /\ InitLoaded(LoadedUsers, LoadedChannels)
  /\ toolConfig = "true"
  /\ transport = "stdio"
  /\ apiKey = "" /\ sseApiKey = ""
  /\ hres = NoCall
  /\ pg = [state |-> "start"]

\* IsUnfurlingEnabled(text, opt) for the text of the pieces.
DecideUnfurling ==
  /\ pg.state = "start"
  /\ \E n \in 1..MaxPieces, option \in UnfurlOptions :
       \E pieces \in [1..n -> Pieces] :
         pg' = [state |-> "decided", option |-> option, pieces |-> pieces,
                text |-> Join(PieceTexts(pieces), " "),
                enabled |-> IsUnfurlingEnabled(Join(PieceTexts(pieces), " "), option.opt)]
  /\ UNCHANGED <<provVars, diskVars, envVars, taskVars, hres>>

NextUnfurl == DecideUnfurling

SpecUnfurl == InitUnfurl /\ [][NextUnfurl]_vars

\* Every URL of the pieces names a listed host and every bare domain with
\* an ICANN suffix is listed.
AllListed(pieces, domains) ==
  \A i \in DOMAIN pieces :
    /\ pieces[i].kind = "url" => pieces[i].host \in domains
    /\ (pieces[i].kind = "bare" /\ pieces[i].icann) => pieces[i].domain \in domains

UnfurlAsListed(option, pieces, enabled) ==
  /\ option.opt \in UnfurlOff => ~enabled
  /\ option.opt \in UnfurlOn => enabled
  /\ option.opt \notin UnfurlOff \cup UnfurlOn => (enabled <=> AllListed(pieces, option.domains))

\* C18: unfurling is off for "", "no", "false", "0" and on for "yes",
\* "true", "1"; for a list of domains it is on exactly when the host of
\* every http(s) URL of the text and every bare domain with an ICANN public
\* suffix is in the list.
C18_UnfurlOnlyListedHosts ==
  pg.state = "decided" => UnfurlAsListed(pg.option, pg.pieces, pg.enabled)

\* The same for texts whose URLs url.Parse accepts.
C18_WellFormedUrls ==
  (pg.state = "decided" /\ \A i \in DOMAIN pg.pieces : pg.pieces[i] \notin MalformedUrls)
    => UnfurlAsListed(pg.option, pg.pieces, pg.enabled)

(***************************************************************************)
(* filterSpecialChars: the three link passes, then the URLs put aside, the *)
(* other special characters removed, the URLs put back, spaces collapsed.  *)
(***************************************************************************)
\* The character of s at position i, "" outside of s.
At(s, i) == IF i >= 1 /\ i <= Len(s) THEN CharAt(s, i) ELSE ""

\* The part of s from position i on.
From(s, i) == SubSeq(s, i, Len(s))

\* strings.Index(s, sub) and strings.LastIndex(s, sub), plus one: 0 is -1.
Least(S) == CHOOSE x \in S : \A y \in S : x <= y
Greatest(S) == CHOOSE x \in S : \A y \in S : x >= y

\* The places of sub in s.
Places(s, sub) == {i \in 1..(Len(s) - Len(sub) + 1) : SubSeq(s, i, i + Len(sub) - 1) = sub}

IndexStr(s, sub) == IF Places(s, sub) = {} THEN 0 ELSE Least(Places(s, sub))

LastIndexStr(s, sub) == IF Places(s, sub) = {} THEN 0 ELSE Greatest(Places(s, sub))

\* strings.Replace(s, old, new, 1)
ReplaceAt(s, old, new, i) ==
  IF i = 0 THEN s ELSE SubSeq(s, 1, i - 1) \o new \o From(s, i + Len(old))

ReplaceFirst(s, old, new) == ReplaceAt(s, old, new, IndexStr(s, old))

\* A match of a link expression: its length, or 0, and its two groups.
NoMatch == [len |-> 0, g1 |-> "", g2 |-> ""]
Match(len, g1, g2) == [len |-> len, g1 |-> g1, g2 |-> g2]

NotGtBar(c) == c \notin {">", "|"}
NotGt(c) == c # ">"
NotRBracket(c) == c # "]"
NotRParen(c) == c # ")"
NotQuote(c) == c \notin {"\"", "'"}
NotLt(c) == c # "<"

\* slackLinkRegex, <(https?://[^>|]+)\|([^>]+)>, at the head of s: p
\* characters are matched, then a run of n.
slackLinkText(s, p, n, url) ==
  IF n = 0 \/ At(s, p + n + 1) # ">" THEN NoMatch
  ELSE Match(p + n + 1, url, SubSeq(s, p + 1, p + n))

slackLinkUrl(s, p, n) ==
  IF n = 0 \/ At(s, p + n + 1) # "|" THEN NoMatch
  ELSE slackLinkText(s, p + n + 1, RunLen(From(s, p + n + 2), NotGt, 0), SubSeq(s, 2, p + n))

slackLinkRegex(s) ==
  IF At(s, 1) # "<" \/ urlSchemeLen(Tail(s)) = 0 THEN NoMatch
  ELSE slackLinkUrl(s, 1 + urlSchemeLen(Tail(s)),
                    RunLen(From(s, 2 + urlSchemeLen(Tail(s))), NotGtBar, 0))

\* markdownLinkRegex, \[([^\]]+)\]\((https?://[^)]+)\), at the head of s.
markdownLinkUrl(s, p, n, label) ==
  IF n = 0 \/ At(s, p + n + 1) # ")" THEN NoMatch
  ELSE Match(p + n + 1, label, SubSeq(s, Len(label) + 4, p + n))

markdownLinkLabel(s, n) ==
  IF n = 0 \/ ~HasPrefix(From(s, n + 2), "](") \/ urlSchemeLen(From(s, n + 4)) = 0 THEN NoMatch
  ELSE markdownLinkUrl(s, n + 3 + urlSchemeLen(From(s, n + 4)),
                       RunLen(From(s, n + 4 + urlSchemeLen(From(s, n + 4))), NotRParen, 0),
                       SubSeq(s, 2, n + 1))

markdownLinkRegex(s) ==
  IF At(s, 1) # "[" THEN NoMatch
  ELSE markdownLinkLabel(s, RunLen(Tail(s), NotRBracket, 0))

\* htmlLinkRegex, <a\s+href=["']([^"']+)["'][^>]*>([^<]+)</a>, at the head.
htmlLinkText(s, p, n, url) ==
  IF n = 0 \/ ~HasPrefix(From(s, p + n + 1), "</a>") THEN NoMatch
  ELSE Match(p + n + 4, url, SubSeq(s, p + 1, p + n))

htmlLinkRest(s, p, n, url) ==
  IF At(s, p + n + 1) # ">" THEN NoMatch
  ELSE htmlLinkText(s, p + n + 1, RunLen(From(s, p + n + 2), NotLt, 0), url)

htmlLinkUrl(s, p, n) ==
  IF n = 0 \/ NotQuote(At(s, p + n + 1)) THEN NoMatch
  ELSE htmlLinkRest(s, p + n + 1, RunLen(From(s, p + n + 2), NotGt, 0),
                    SubSeq(s, p + 1, p + n))

htmlLinkHref(s, p) ==
  IF ~HasPrefix(From(s, p + 1), "href=") \/ NotQuote(At(s, p + 6)) THEN NoMatch
  ELSE htmlLinkUrl(s, p + 6, RunLen(From(s, p + 7), NotQuote, 0))

htmlLinkRegex(s) ==
  IF ~HasPrefix(s, "<a") \/ RunLen(From(s, 3), IsSpace, 0) = 0 THEN NoMatch
  ELSE htmlLinkHref(s, 2 + RunLen(From(s, 3), IsSpace, 0))

\* The places of s, from a place on, at which the expression matches.
MatchPlaces(s, Regex(_), from) == {i \in from..Len(s) : Regex(From(s, i)).len > 0}

\* The match at place i, with the text it matched.
Submatch(s, m, i) ==
  [original |-> SubSeq(s, i, i + m.len - 1), g1 |-> m.g1, g2 |-> m.g2]

\* FindAllStringSubmatch(text, -1): the matches from left to right, each
\* one sought after the end of the one before.
RECURSIVE FindAllMatches(_, _, _)
FindAllMatches(s, Regex(_), places) ==
  IF places = {} THEN <<>>
  ELSE <<Submatch(s, Regex(From(s, Least(places))), Least(places))>>
       \o FindAllMatches(s, Regex,
             MatchPlaces(s, Regex, Least(places) + Regex(From(s, Least(places))).len))

FindAllStringSubmatch(s, Regex(_)) == FindAllMatches(s, Regex, MatchPlaces(s, Regex, 1))

\* isLastInText: nothing but white space after the last place of the link
\* in the text as it is now.
isLastInText(original, currentText) ==
  /\ LastIndexStr(currentText, original) # 0
  /\ TrimSpace(From(currentText, LastIndexStr(currentText, original) + Len(original))) = ""

\* replaceWithCommaCheck: a match with a "|" in it is read as url, label,
\* any other as label, url.
replaceWithCommaCheck(match, isLast) ==
  (IF Contains(match.original, "|") THEN match.g1 \o " - " \o match.g2
   ELSE match.g2 \o " - " \o match.g1)
    \o (IF isLast THEN "" ELSE ",")

\* The loop over the matches of the Slack or Markdown expression.
RECURSIVE replaceLinks(_, _)
replaceLinks(text, matches) ==
  IF Len(matches) = 0 THEN text
  ELSE replaceLinks(
         ReplaceFirst(text, Head(matches).original,
                      replaceWithCommaCheck(Head(matches),
                                            isLastInText(Head(matches).original, text))),
         Tail(matches))

\* The loop over the matches of the HTML expression.
RECURSIVE replaceAnchors(_, _)
replaceAnchors(text, matches) ==
  IF Len(matches) = 0 THEN text
  ELSE replaceAnchors(
         ReplaceFirst(text, Head(matches).original,
                      Head(matches).g1 \o " - " \o Head(matches).g2
                        \o (IF isLastInText(Head(matches).original, text) THEN "" ELSE ",")),
         Tail(matches))

\* The three passes, each over the matches found in the text it starts with.
slackLinks(text) ==
  replaceLinks(text, FindAllStringSubmatch(text, slackLinkRegex))
markdownLinks(text) ==
  replaceLinks(text, FindAllStringSubmatch(text, markdownLinkRegex))
htmlLinks(text) ==
  replaceAnchors(text, FindAllStringSubmatch(text, htmlLinkRegex))

\* urlRegex at the head of s: the scheme, then characters that are neither
\* white space nor one of < > " { } | \ ^ [ ] nor the grave accent, which no
\* text of the model holds.
IsUrlChar(c) ==
  ~IsSpace(c) /\ c \notin {"<", ">", "\"", "{", "}", "|", "\\", "^", "[", "]"}

urlRegex(s) ==
  IF urlSchemeLen(s) = 0 \/ RunLen(From(s, urlSchemeLen(s) + 1), IsUrlChar, 0) = 0
    THEN NoMatch
  ELSE Match(urlSchemeLen(s) + RunLen(From(s, urlSchemeLen(s) + 1), IsUrlChar, 0), "", "")

placeholder(i) == "___URL_PLACEHOLDER_" \o Chr(48 + i) \o "___"

\* Each URL in turn gives way to its placeholder, and back.
RECURSIVE protectUrls(_, _, _)
protectUrls(text, urls, i) ==
  IF i >= Len(urls) \/ text = "" THEN text
  ELSE protectUrls(ReplaceFirst(text, urls[i + 1].original, placeholder(i)), urls, i + 1)

RECURSIVE restoreUrls(_, _, _)
restoreUrls(text, urls, i) ==
  IF i >= Len(urls) \/ text = "" THEN text
  ELSE restoreUrls(ReplaceFirst(text, placeholder(i), urls[i + 1].original), urls, i + 1)

\* cleanRegex, [^0-9\p{L}\p{M}\s\.\,\-_:/\?=&%], removes every character
\* that is none of these.
IsKept(c) ==
  IsDigit(c) \/ IsLetter(c) \/ IsSpace(c)
    \/ c \in {".", ",", "-", "_", ":", "/", "?", "=", "&", "%"}

\* The texts f[lo], ..., f[hi] put together.
RECURSIVE Together(_, _, _)
Together(f, lo, hi) ==
  IF lo > hi THEN ""
  ELSE IF lo = hi THEN f[lo]
  ELSE Together(f, lo, (lo + hi) \div 2) \o Together(f, (lo + hi) \div 2 + 1, hi)

cleanRegex(s) ==
  Together([i \in 1..Len(s) |-> IF IsKept(CharAt(s, i)) THEN CharAt(s, i) ELSE ""],
           1, Len(s))

\* spaceRegex, [ \t]+ , replaced by one space.
IsBlank(c) == c \in {" ", "\t"}

spaceRegex(s) ==
  Together([i \in 1..Len(s) |->
              IF ~IsBlank(CharAt(s, i)) THEN CharAt(s, i)
              ELSE IF IsBlank(At(s, i - 1)) THEN "" ELSE " "],
           1, Len(s))

cleanAround(text, urls) ==
  TrimSpace(spaceRegex(restoreUrls(cleanRegex(protectUrls(text, urls, 0)), urls, 0)))

cleanText(text) == cleanAround(text, FindAllStringSubmatch(text, urlRegex))

filterSpecialChars(text) == cleanText(htmlLinks(markdownLinks(slackLinks(text))))

(***************************************************************************)
(* SpecSanitize: filterSpecialChars on texts made of words and links.      *)
(***************************************************************************)
MaxParts == 3

Link(kind, url, label) == [kind |-> kind, url |-> url, label |-> label]

Word(text) == [kind |-> "word", text |-> text]

LinkKinds == {"slack", "markdown", "html"}

Links ==
  {Link(kind, "https://site1.com", "Site One") : kind \in LinkKinds}
    \cup {Link(kind, "http://site2.com/a?b=1", "Two") : kind \in LinkKinds}

Parts == Links \cup {Word("First"), Word("done.")}

\* A part as it is written in a message.
Written(part) ==
  IF part.kind = "word" THEN part.text
  ELSE IF part.kind = "slack" THEN "<" \o part.url \o "|" \o part.label \o ">"
  ELSE IF part.kind = "markdown" THEN "[" \o part.label \o "](" \o part.url \o ")"
  ELSE "<a href=\"" \o part.url \o "\">" \o part.label \o "</a>"

WrittenText(parts, trailing) ==
  Join([i \in DOMAIN parts |-> Written(parts[i])], " ") \o trailing

InitSanitize ==
  /\ InitLoaded(LoadedUsers, LoadedChannels)
  /\ toolConfig = "true"
  /\ transport = "stdio"
  /\ apiKey = "" /\ sseApiKey = ""
  /\ hres = NoCall
  /\ pg = [state |-> "start"]

\* filterSpecialChars(text) for the text of the parts.
FilterSpecialChars ==
  /\ pg.state = "start"
  /\ \E n \in 1..MaxParts, trailing \in {"", "  "} :
       \E parts \in [1..n -> Parts] :
         pg' = [state |-> "filtered", parts |-> parts,
                text |-> WrittenText(parts, trailing),
                out |-> filterSpecialChars(WrittenText(parts, trailing))]
  /\ UNCHANGED <<provVars, diskVars, envVars, taskVars, hres>>

NextSanitize == FilterSpecialChars

SpecSanitize == InitSanitize /\ [][NextSanitize]_vars

\* A link as "url - label", with a comma when a part follows it.
Rewritten(parts, i) ==
  IF parts[i].kind = "word" THEN parts[i].text
  ELSE parts[i].url \o " - " \o parts[i].label \o (IF i < Len(parts) THEN "," ELSE "")

RewrittenText(parts) == Join([i \in DOMAIN parts |-> Rewritten(parts, i)], " ")

\* C19: every Slack, Markdown and HTML link of a text comes out as
\* "url - label", with a comma after it exactly when something other than
\* white space follows the link in the text, also for a link that the text
\* holds more than once.
C19_CommaWhenContentFollows ==
  pg.state = "filtered" => pg.out = RewrittenText(pg.parts)

\* The same for texts in which no link is written twice.
C19_NoLinkTwice ==
  (pg.state = "filtered"
     /\ \A i, j \in DOMAIN pg.parts :
          (i # j /\ pg.parts[i].kind # "word") => pg.parts[i] # pg.parts[j])
    => pg.out = RewrittenText(pg.parts)

(***************************************************************************)
(* conversations_search_messages: the page cursor.                         *)
(***************************************************************************)
\* parseParamsToolSearch, the part after buildQuery: the page a cursor names.
searchPageOf(cursor, partOfCursor) ==
  IF Len(partOfCursor) # 2 THEN [err |-> "invalid cursor: " \o cursor, page |-> 0]
  ELSE IF ~Atoi(partOfCursor[2]).ok \/ Atoi(partOfCursor[2]).n < 1
         THEN [err |-> "invalid cursor page", page |-> 0]
  ELSE [err |-> "", page |-> Atoi(partOfCursor[2]).n]

searchPage(cursor) ==
  IF cursor = "" THEN [err |-> "", page |-> 1]
  ELSE IF ~DecodeString(cursor).ok THEN [err |-> "invalid cursor", page |-> 0]
  ELSE searchPageOf(cursor, Split(DecodeString(cursor).val, ":"))

\* Most matches Slack holds for the query.
MaxMatches == 7

\* search.messages of Slack for a query with `total` matches, numbered from
\* the newest: the matches of page `page` with `count` matches a page, and
\* the pagination record, where page_count is the number of pages of the
\* whole result and page the page returned.
SearchContext(total, count, page) ==
  [Matches |-> [i \in 1..(IF page * count <= total THEN count
                          ELSE IF (page - 1) * count < total
                                 THEN total - (page - 1) * count
                          ELSE 0) |-> (page - 1) * count + i],
   Pagination |-> [TotalCount |-> total, Page |-> page, PerPage |-> count,
                   PageCount |-> (total + count - 1) \div count]]

\* The cursor ConversationsSearchHandler puts on the last row.
searchCursor(messagesRes) ==
  IF /\ Len(messagesRes.Matches) > 0
     /\ messagesRes.Pagination.PerPage * messagesRes.Pagination.PageCount
          < messagesRes.Pagination.TotalCount
    THEN EncodeToString("page:" \o Itoa(messagesRes.Pagination.PageCount + 1))
    ELSE ""

searchRows(params, messagesRes) ==
  [err |-> "", page |-> params.page, rows |-> messagesRes.Matches,
   cursor |-> searchCursor(messagesRes)]

\* ConversationsSearchHandler for a request with limit and cursor.
ConversationsSearchPage(total, limit, cursor) ==
  IF searchPage(cursor).err # ""
    THEN [err |-> searchPage(cursor).err, page |-> 0, rows |-> <<>>, cursor |-> ""]
    ELSE searchRows(searchPage(cursor),
                    SearchContext(total, limit, searchPage(cursor).page))

(***************************************************************************)
(* SpecSearchPages: a client that searches a query with up to MaxMatches   *)
(* matches, from the first page or from a cursor it holds.                 *)
(***************************************************************************)
PageCursor(n) == EncodeToString("page:" \o Itoa(n))

\* Cursors a client may send: those of pages 1 to 4, and strings the parser
\* has to refuse.
ClientCursors ==
  {PageCursor(n) : n \in 1..4}
  \cup {"!!", "abc", EncodeToString("page"), EncodeToString("page:0"),
        EncodeToString("page:x"), EncodeToString("a:b:c")}

InitSearchPages ==
  /\ InitLoaded(LoadedUsers, LoadedChannels)
  /\ toolConfig = "true"
  /\ transport = "stdio"
  /\ apiKey = "" /\ sseApiKey = ""
  /\ hres = NoCall
  /\ pg \in [state : {"none"}, total : 0..MaxMatches]

Searched(total, limit, cursor, resp) ==
  [state |-> IF resp.err # "" THEN "refused" ELSE "page", total |-> total,
   limit |-> limit, sent |-> cursor, page |-> resp.page, rows |-> resp.rows,
   cursor |-> resp.cursor]

SearchFirstPage ==
  /\ pg.state = "none"
  /\ \E limit \in 1..MaxPageLimit :
       pg' = Searched(pg.total, limit, "",
                      ConversationsSearchPage(pg.total, limit, ""))
  /\ UNCHANGED <<provVars, diskVars, envVars, taskVars, hres>>

SearchAtCursor ==
  /\ pg.state \in {"none", "page"}
  /\ \E limit \in 1..MaxPageLimit, cursor \in ClientCursors :
       pg' = Searched(pg.total, limit, cursor,
                      ConversationsSearchPage(pg.total, limit, cursor))
  /\ UNCHANGED <<provVars, diskVars, envVars, taskVars, hres>>

NextSearchPages == SearchFirstPage \/ SearchAtCursor

SpecSearchPages == InitSearchPages /\ [][NextSearchPages]_vars

\* C21: every page of conversations_search_messages carries a cursor exactly
\* when matches exist beyond it, the cursor is base64 of "page:" and the
\* number of the page just returned plus one, and the parser reads that
\* page number back from it.
C21_SearchCursorChain ==
  pg.state = "page" =>
    /\ (pg.cursor # "") <=> (pg.page * pg.limit < pg.total)
    /\ pg.cursor # "" =>
         /\ pg.cursor = PageCursor(pg.page + 1)
         /\ searchPage(pg.cursor) = [err |-> "", page |-> pg.page + 1]

\* What the handler does with Slack's page count: no page carries a cursor.
C21_NoCursorEmitted == pg.state = "page" => pg.cursor = ""

(***************************************************************************)
(* SpecRefresh: the background task of main() alone, scheduled fairly: a   *)
(* goroutine that can take a step eventually takes it, and every gateway   *)
(* call returns (a result or an error).  A channel listing ends after at   *)
(* most MaxPages pages.                                                    *)
(***************************************************************************)
BackgroundTask == newUsersWatcher \/ RefreshUsers \/ newChannelsWatcher \/ RefreshChannels

SpecRefresh == Init /\ [][BackgroundTask]_vars /\ WF_vars(BackgroundTask)

\* C22: in a process without the demo sentinel the users pipeline ends in
\* READY or FATAL, and so does the channels pipeline; a pipeline starts only
\* where no run of it has acted before; and once a collection is READY its
\* two maps are not written again.
C22_PipelinesRunOnceAndEnd ==
  /\ ~demo => <>(usersReady \/ proc = "fatal")
  /\ ~demo => <>(channelsReady \/ proc = "fatal")
  /\ [][/\ (wpc' = "u_read" /\ wpc # "u_read") =>
             /\ wpc = "u_start" /\ ~usersReady
             /\ users = EmptyMap /\ gw \cap UsersGateway = {}
        /\ (wpc' = "c_read" /\ wpc # "c_read") =>
             /\ wpc = "c_start" /\ ~channelsReady
             /\ channels = EmptyMap /\ gw \cap ChannelsGateway = {}
        /\ usersReady => users' = users /\ usersInv' = usersInv
        /\ channelsReady => channels' = channels /\ channelsInv' = channelsInv]_vars

\* Both pipelines finished after live listings, the channels one after
\* MaxPages pages.
C22_Witness ==
  /\ wpc = "done" /\ usersReady /\ channelsReady
  /\ {"GetUsersContext", "GetConversationsContext"} \subseteq gw
  /\ "GetConversationsContext failed" \notin gw
  /\ Cardinality(DOMAIN channels) >= 3

(***************************************************************************)
(* SpecDemo: processes started under every combination of the three token  *)
(* variables, the background task and a client of channels_list.           *)
(***************************************************************************)
\* The test newUsersWatcher, newChannelsWatcher and the constructors make.
demoCredentials(xoxp, xoxc, xoxd) ==
  xoxp = "demo" \/ (xoxc = "demo" /\ xoxd = "demo")

\* SLACK_MCP_XOXP_TOKEN, SLACK_MCP_XOXC_TOKEN, SLACK_MCP_XOXD_TOKEN; without
\* the first, provider.New wants the other two.
TokenEnvs ==
  [state : {"env"}, xoxp : {"", "demo"}, xoxc : {"demo", "xoxc-1"},
   xoxd : {"demo", "xoxd-1"}]

InitDemo ==
  /\ InitProvider
  /\ InitTask
  /\ usersFile \in UsersFiles
  /\ channelsFile \in ChannelsFiles
  /\ pg \in TokenEnvs
  /\ demo = demoCredentials(pg.xoxp, pg.xoxc, pg.xoxd)
  /\ toolConfig = "true"
  /\ transport = "stdio"
  /\ apiKey = "" /\ sseApiKey = ""
  /\ hres = NoCall

NextDemo ==
  \/ BackgroundTask
  \/ ChannelsList(ListReqs, {NoAuth})
  \/ ConcurrentMapAccess

SpecDemo == InitDemo /\ [][NextDemo]_vars

DemoSentinel == pg.xoxp = "demo" \/ (pg.xoxc = "demo" /\ pg.xoxd = "demo")

\* C23: with SLACK_MCP_XOXP_TOKEN = demo, or with both SLACK_MCP_XOXC_TOKEN
\* and SLACK_MCP_XOXD_TOKEN = demo, the background task enters neither
\* refresh: it calls no gateway operation, reads no snapshot, installs
\* nothing, no step writes a snapshot file, and both flags stay false.
C23_DemoSkipsPipelines ==
  /\ [](DemoSentinel =>
          /\ wpc \in {"u_start", "c_start", "done"}
          /\ gw = {} /\ wq = <<>> /\ wlist = <<>>
          /\ users = EmptyMap /\ usersInv = EmptyMap
          /\ channels = EmptyMap /\ channelsInv = EmptyMap
          /\ ~usersReady /\ ~channelsReady)
  /\ [][DemoSentinel => usersFile' = usersFile /\ channelsFile' = channelsFile]_vars

\* Session tokens both demo, parsable snapshots on disk, both watchers have
\* returned, and channels_list has answered that the cache is not ready.
C23_Witness ==
  /\ pg.xoxp = "" /\ pg.xoxc = "demo" /\ pg.xoxd = "demo"
  /\ usersFile.kind = "json" /\ channelsFile.kind = "json"
  /\ wpc = "done"
  /\ Called /\ hres.tool = "channels_list" /\ hres.err # ""

\* The id of the last entry of `list` named n.
LastNamed(list, n) ==
  list[CHOOSE i \in DOMAIN list :
         /\ list[i].Name = n
         /\ \A j \in DOMAIN list : list[j].Name = n => j <= i].ID

Names(list) == {list[i].Name : i \in DOMAIN list}

\* inv is the inverse of primary: every name leads to an entry of that name.
InverseOf(inv, primary) ==
  \A n \in DOMAIN inv : inv[n] \in DOMAIN primary /\ primary[inv[n]].Name = n

\* inv binds every name of `list` to the last entry of that name.
LastWins(inv, list) ==
  \A n \in Names(list) : n \in DOMAIN inv /\ inv[n] = LastNamed(list, n)

\* This step changes inverse map inv at most at the name of the entry at the
\* head of the queue, which it binds to that entry's id and takes off the queue.
BindsHead(inv, invAfter, queue, queueAfter) ==
  invAfter # inv =>
    /\ queue # <<>> /\ queueAfter = Tail(queue)
    /\ invAfter = Put(inv, Head(queue).Name, Head(queue).ID)

\* C24: when a refresh has completed, every name of the inverse map leads to
\* an entry of the primary map that has that name; the inverse map is
\* written entry by entry in list and page order, each write binding the
\* entry's name to its id, so that a name shared by two entries of a refresh
\* is bound to the one inserted last.
C24_InverseHoldsLastBinding ==
  /\ [](usersReady => InverseOf(usersInv, users))
  /\ [](channelsReady => InverseOf(channelsInv, channels))
  /\ [](wpc = "u_load_ready" => LastWins(usersInv, UnmarshalUsers(usersFile)))
  /\ [](wpc = "u_write" => LastWins(usersInv, wlist))
  /\ [](wpc = "c_load_ready" => LastWins(channelsInv, UnmarshalChannels(channelsFile)))
  /\ [][/\ BindsHead(usersInv, usersInv', wq, wq')
        /\ BindsHead(channelsInv, channelsInv', wq, wq')]_vars

\* A live users refresh that listed u1 and then u3, both named "a", has
\* completed with "a" bound to U3.
C24_Witness ==
  /\ usersReady /\ "GetUsersContext" \in gw
  /\ {"U1", "U3"} \subseteq DOMAIN users
  /\ users["U1"].Name = users["U3"].Name
  /\ usersInv[users["U1"].Name] = "U3"

(***************************************************************************)
(* SpecCancel: RefreshChannels(ctx) and edge.Client.IMList(ctx) run under  *)
(* a context that its owner may cancel at any moment.  (main() passes      *)
(* context.Background(); both functions take the context of their caller.) *)
(***************************************************************************)
\* limiter.Tier2boost: one token every t milliseconds, burst b.
Tier2boost == [t |-> 300, b |-> 5]

\* Most pages im.list serves.
MaxIMPages == 3

\* ctx and the locals of IMList: position, requests posted, waits made,
\* IMs collected (pages), result.
InitCancel ==
  /\ users = ByID(LoadedUsers) /\ usersInv = ByName(LoadedUsers) /\ usersReady = TRUE
  /\ channels = EmptyMap /\ channelsInv = EmptyMap /\ channelsReady = FALSE
  /\ usersFile = MarshalUsers(LoadedUsers)
  /\ channelsFile \in ChannelsFiles
  /\ wpc = "c_start" /\ wq = <<>> /\ wlist = <<>> /\ wpages = 0 /\ wnext = ""
  /\ proc = "running" /\ gw = {}
  /\ demo = FALSE
  /\ toolConfig = "true"
  /\ transport = "stdio"
  /\ apiKey = "" /\ sseApiKey = ""
  /\ hres = NoCall
  /\ pg = [state |-> "ctx", cancelled |-> FALSE, waitErr |-> FALSE, imWaitErr |-> FALSE,
           lim |-> Tier2boost, im |-> "request", posts |-> 0, waits |-> 0,
           IMs |-> 0, err |-> ""]

\* The owner of ctx cancels it.
CancelContext ==
  /\ ~pg.cancelled
  /\ pg' = [pg EXCEPT !.cancelled = TRUE]
  /\ UNCHANGED <<provVars, diskVars, envVars, taskVars, hres>>

\* lim.Wait(ctx) in GetChannels: with ctx cancelled it returns an error and
\* GetChannels returns nil to RefreshChannels, which goes on to write the
\* snapshot; otherwise the loop goes on.
GetChannelsWaitCtx ==
  \/ /\ ~pg.cancelled
     /\ GetChannelsWait
  \/ /\ pg.cancelled
     /\ Running /\ wpc = "c_wait"
     /\ wlist' = <<>> /\ wq' = <<>>
     /\ wpages' = 0 /\ wnext' = ""
     /\ wpc' = "c_write"
     /\ pg' = [pg EXCEPT !.waitErr = TRUE]
     /\ hres' = NoCall
     /\ UNCHANGED <<provVars, diskVars, envVars, proc, gw>>

\* cl.PostForm(ctx, "im.list") and ParseResponse: an error, or a page of IMs
\* with or without a next cursor; with ctx cancelled, an error.
IMListPost ==
  /\ pg.im = "request"
  /\ \/ pg' = [pg EXCEPT !.posts = @ + 1, !.im = "returned", !.IMs = 0,
                         !.err = "im.list failed"]
     \/ /\ ~pg.cancelled
        /\ \E more \in BOOLEAN :
             /\ more => pg.posts + 1 < MaxIMPages
             /\ pg' = [pg EXCEPT !.posts = @ + 1, !.IMs = @ + 1,
                                 !.im = IF more THEN "wait" ELSE "returned"]
  /\ UNCHANGED <<provVars, diskVars, envVars, taskVars, hres>>

\* lim.Wait(ctx) in IMList: return nil, err when ctx is cancelled.
IMListWait ==
  /\ pg.im = "wait"
  /\ pg' = IF pg.cancelled
             THEN [pg EXCEPT !.waits = @ + 1, !.im = "returned", !.IMs = 0,
                             !.err = "context canceled", !.imWaitErr = TRUE]
             ELSE [pg EXCEPT !.waits = @ + 1, !.im = "request"]
  /\ UNCHANGED <<provVars, diskVars, envVars, taskVars, hres>>

NextCancel ==
  \/ CancelContext
  \/ newChannelsWatcher
  \/ RefreshChannelsRead
  \/ RefreshChannelsPut("c_load_put", "c_load_inv")
  \/ RefreshChannelsPutInv("c_load_inv", "c_load_put", "c_load_ready")
  \/ RefreshChannelsReady("c_load_ready")
  \/ GetChannelsFetch
  \/ GetChannelsWaitCtx
  \/ RefreshChannelsPut("c_live_put", "c_live_inv")
  \/ RefreshChannelsPutInv("c_live_inv", "c_live_put", GetChannelsAfterPage)
  \/ GetChannelsReturn
  \/ RefreshChannelsWrite
  \/ RefreshChannelsReady("c_ready")
  \/ IMListPost
  \/ IMListWait

SpecCancel == InitCancel /\ [][NextCancel]_vars

\* Between two page requests of GetChannels, and of IMList, lies a wait on a
\* Tier2boost limiter, and a wait that ctx's cancellation ends is followed
\* by no page request.
WaitsBetweenRequests ==
  /\ [](pg.lim = [t |-> 300, b |-> 5])
  /\ [](pg.posts <= pg.waits + 1)
  /\ [][/\ (wpc' = "c_fetch" /\ wpc # "c_fetch" /\ wpages > 0) =>
             wpc \in {"c_wait", "c_live_inv"}
        /\ (wpc' = "c_live_put" /\ wpc \notin {"c_live_put", "c_live_inv"}) => wpc = "c_wait"
        /\ pg.waitErr => gw' = gw /\ wpc' # "c_fetch"
        /\ pg.imWaitErr => pg'.posts = pg.posts]_vars

\* C25: the channel-list loop and the Edge IM-list loop wait on the
\* Tier2boost bucket (300 ms, burst 5) between two page requests; a wait
\* that cancellation ends is followed by no page request, and the channels
\* collection is not marked ready after it.
C25_CancelledWaitLeavesNotReady ==
  /\ WaitsBetweenRequests
  /\ [](pg.waitErr => ~channelsReady)

\* What the code keeps of C25: the waits, and no request after a cancelled wait.
C25_WaitsAndNoRequestAfterCancel ==
  /\ WaitsBetweenRequests
  /\ [](pg.im = "returned" /\ pg.err # "" => pg.IMs = 0)

(***************************************************************************)
(* SpecReplies: conversations_replies with every kind of thread_ts, on a   *)
(* process whose caches are loaded.                                        *)
(***************************************************************************)
ThreadStamps == {"", "1234567890", "abc", "1234567890.123456", "1.2", "a.b", ".", "1.", ".5"}

ThreadReqs ==
  {Conv(c, l, t) : c \in {"C1", "#g", "#zz", ""}, l \in {"1d", "5", "x"},
                   t \in ThreadStamps}

InitReplies ==
  /\ InitLoaded(LoadedUsers, LoadedChannels)
  /\ toolConfig = "true"
  /\ transport = "stdio"
  /\ apiKey = "" /\ sseApiKey = ""
  /\ hres = NoCall
  /\ pg = NoClient

NextReplies == Replies(ThreadReqs, {NoAuth}, {"", "conversations.replies"})

SpecReplies == InitReplies /\ [][NextReplies]_vars

\* digits "." digits
IsTimestamp(s) ==
  \E i \in 1..Len(s) :
    /\ CharAt(s, i) = "."
    /\ i > 1 /\ AllDigits(SubSeq(s, 1, i - 1))
    /\ i < Len(s) /\ AllDigits(SubSeq(s, i + 1, Len(s)))

\* C26: a conversations_replies call whose thread_ts is not digits "." digits
\* ends in an error and makes no Slack call.
C26_ThreadTsFormatChecked ==
  (Called /\ hres.tool = "conversations_replies" /\ ~IsTimestamp(hres.req.thread_ts)) =>
    hres.err # "" /\ hres.calls = <<>>

\* What the handler checks: an empty thread_ts is refused before any Slack call.
C26_EmptyThreadTsRefused ==
  (Called /\ hres.tool = "conversations_replies" /\ hres.req.thread_ts = "") =>
    hres.err # "" /\ hres.calls = <<>>

(***************************************************************************)
(* SpecUrls: filterSpecialChars on texts of up to MaxUrls bare URLs with   *)
(* words between them.                                                     *)
(***************************************************************************)
MaxUrls == 12

\* A URL written in two parts around its number; the last shape holds
\* characters that cleanRegex removes outside URLs.
UrlShapes ==
  {[head |-> "http://a.io/", tail |-> ""],
   [head |-> "https://b.io/p", tail |-> "?q=1&r=2"],
   [head |-> "https://c.io/~u", tail |-> "#x!(y)"]}

\* What stands between two URLs, and what cleanRegex and spaceRegex leave of it.
Separators ==
  {[text |-> " ", clean |-> " "],
   [text |-> " and ", clean |-> " and "],
   [text |-> ", ", clean |-> ", "],
   [text |-> " (x)!  ", clean |-> " x "]}

UrlOf(shape, i) == shape.head \o Itoa(i) \o shape.tail

UrlsOf(shape, n) == [i \in 1..n |-> UrlOf(shape, i)]

InitUrls ==
  /\ InitLoaded(LoadedUsers, LoadedChannels)
  /\ toolConfig = "true"
  /\ transport = "stdio"
  /\ apiKey = "" /\ sseApiKey = ""
  /\ hres = NoCall
  /\ pg = [state |-> "start"]

\* filterSpecialChars(text) for n URLs of one shape with one separator.
FilterUrls ==
  /\ pg.state = "start"
  /\ \E n \in 1..MaxUrls, shape \in UrlShapes, sep \in Separators :
       pg' = [state |-> "filtered", urls |-> UrlsOf(shape, n), sep |-> sep,
              out |-> filterSpecialChars(Join(UrlsOf(shape, n), sep.text))]
  /\ UNCHANGED <<provVars, diskVars, envVars, taskVars, hres>>

NextUrls == FilterUrls

SpecUrls == InitUrls /\ [][NextUrls]_vars

\* C27: the sanitized text holds every URL of the text as it was written,
\* whatever their number, and between the URLs only what cleanRegex keeps:
\* no URL loses a character and no placeholder text is left.
C27_UrlsSurviveSanitizing ==
  pg.state = "filtered" => pg.out = Join(pg.urls, pg.sep.clean)

\* The same for texts of at most eleven URLs.
C27_UpToElevenUrls ==
  (pg.state = "filtered" /\ Len(pg.urls) <= 11) => pg.out = Join(pg.urls, pg.sep.clean)

\* The conversations Slack lists, over all pages.
RawChannels == UNION {Range(page) : page \in ChannelPages}

\* The positions of the background task inside the channels refresh.
InChannelsRefresh ==
  wpc \in {"c_read", "c_load_put", "c_load_inv", "c_load_ready", "c_fetch", "c_wait",
           "c_live_put", "c_live_inv", "c_result", "c_write", "c_ready"}

\* C28: in a process without the demo sentinel the channels refresh runs
\* only when the users refresh has finished, so channelsReady implies
\* usersReady; every page of a live channels refresh is mapped against the
\* users map of the finished users refresh, and so is every IM and group DM
\* the refresh leaves in the cache.
C28_ChannelsAfterUsers ==
  /\ [](~demo => (channelsReady => usersReady) /\ (InChannelsRefresh => usersReady))
  /\ [](~demo /\ wpc \in {"c_wait", "c_live_put", "c_live_inv"} =>
          \A i \in DOMAIN wq : \E rc \in RawChannels : wq[i] = mapChannel(rc, users))
  /\ [](~demo /\ channelsReady /\ "GetConversationsContext" \in gw =>
          \A id \in DOMAIN channels :
            (channels[id].IsIM \/ channels[id].IsMpIM) =>
              \E rc \in RawChannels : channels[id] = mapChannel(rc, users))
  /\ [][InChannelsRefresh => users' = users /\ usersInv' = usersInv]_vars

\* A live channels refresh after a live users refresh has cached the IM D1
\* under the handle of its user.
C28_Witness ==
  /\ ~demo /\ usersReady /\ channelsReady
  /\ {"GetUsersContext", "GetConversationsContext"} \subseteq gw
  /\ "D1" \in DOMAIN channels /\ "U1" \in DOMAIN users
  /\ channels["D1"].Name = "@" \o users["U1"].Name
  /\ channels["D1"].Purpose = "DM with " \o users["U1"].RealName

(***************************************************************************)
(* SpecRestart: a process without the demo sentinel runs its background    *)
(* task to the end, is stopped, and is started once more on the snapshot   *)
(* files the first run left.                                               *)
(***************************************************************************)
InitRestart ==
  /\ InitProvider
  /\ InitTask
  /\ usersFile \in {Missing, MarshalUsers(<<u1, u2>>)}
  /\ channelsFile \in {Missing, Corrupt}
  /\ demo = FALSE
  /\ toolConfig = "true"
  /\ transport = "stdio"
  /\ apiKey = "" /\ sseApiKey = ""
  /\ hres = NoCall
  /\ pg = NoClient

\* What the first run held in memory, and which snapshots it wrote after a
\* live listing that Slack answered in full.
Remembered ==
  [state |-> "restarted",
   users |-> users, usersInv |-> usersInv,
   channels |-> channels, channelsInv |-> channelsInv,
   usersWritten |-> /\ "GetUsersContext" \in gw
                    /\ usersFile.kind = "json",
   channelsWritten |-> /\ "GetConversationsContext" \in gw
                       /\ "GetConversationsContext failed" \notin gw
                       /\ channelsFile.kind = "json"]

\* The process is stopped after its task has ended and, both snapshots being
\* on disk, started again: provider.New with empty maps, the files as they are.
Restart ==
  /\ Running /\ wpc = "done" /\ pg.state = "none"
  /\ usersFile.kind = "json" /\ channelsFile.kind = "json"
  /\ pg' = Remembered
  /\ users' = EmptyMap /\ usersInv' = EmptyMap /\ usersReady' = FALSE
  /\ channels' = EmptyMap /\ channelsInv' = EmptyMap /\ channelsReady' = FALSE
  /\ wpc' = "u_start" /\ gw' = {}
  /\ hres' = NoCall
  /\ UNCHANGED <<diskVars, envVars, wq, wlist, wpages, wnext, proc>>

NextRestart == BackgroundTask \/ Restart

SpecRestart == InitRestart /\ [][NextRestart]_vars

\* No id twice in a list.
EachIdOnce(list) == \A i, j \in DOMAIN list : list[i].id = list[j].id => i = j

\* The second run, ended, holds what the first run held of a collection
\* whose snapshot the first run wrote.
MapsSurviveRestart ==
  (pg.state = "restarted" /\ wpc = "done") =>
    /\ pg.usersWritten => users = pg.users /\ usersInv = pg.usersInv
    /\ pg.channelsWritten => channels = pg.channels /\ channelsInv = pg.channelsInv

\* C29: a restart on the snapshots of a successful live refresh ends with the
\* users map, the channels map and both inverse maps of the live refresh, and
\* the channels snapshot a live refresh writes holds every channel id once.
C29_SnapshotRoundTrip ==
  /\ MapsSurviveRestart
  /\ (channelsFile.kind = "json" => EachIdOnce(channelsFile.list))

\* What holds of C29: the maps of the second run are those of the first.
C29_MapsSurviveRestart ==
  /\ MapsSurviveRestart
  /\ (pg.state = "restarted" /\ wpc = "done" /\ pg.usersWritten /\ pg.channelsWritten) =>
       usersReady /\ channelsReady /\ gw = {}

(***************************************************************************)
(* SpecLimits: channels_list with every kind of limit and cursor, on a     *)
(* loaded cache.                                                           *)
(***************************************************************************)
ListLimits == {-1, 0, 1, 2, MaxLimit + 1}

\* No cursor, one that is not base64, the cursor of A2 and the cursor of a
\* channel beyond every cached id.
ListCursors == {"", "!!", EncodeToString("A2"), EncodeToString("Z9")}

LimitReqs ==
  {List(types, sort, limit, cursor) :
     types \in {""}, sort \in {"popularity", "name"},
     limit \in ListLimits, cursor \in ListCursors}

NextLimits == ChannelsList(LimitReqs, {NoAuth})

SpecLimits == InitPaginate /\ [][NextLimits]_vars

RowsWithin(limit, rows) ==
  /\ limit >= 1 => Len(rows) <= Min(limit, MaxLimit)
  /\ limit = 0 => Len(rows) <= DefaultLimit

\* C30: every channels_list call ends with rows or an error, not with a
\* runtime failure of the handler, whatever its limit and cursor, and its
\* page holds at most min(limit, 999) rows, 100 for limit 0.
C30_ListEndsNormally ==
  (Called /\ hres.tool = "channels_list") =>
    hres.err # "panic" /\ RowsWithin(hres.req.limit, hres.rows)

\* The same for limits that are not negative.
C30_LimitsFromZero ==
  (Called /\ hres.tool = "channels_list" /\ hres.req.limit >= 0) =>
    hres.err = "" /\ RowsWithin(hres.req.limit, hres.rows)

=============================================================================
